---- MODULE Spec2Model ----
(***************************************************************************)
(* Model of python_ai_coding_standards: the content store                  *)
(* (standards/data.py), the lookup and search API (core/api.py) and the    *)
(* helpers of the AI module (ai.py) and the command line (cli.py).         *)
(*                                                                         *)
(* Python values are modelled as follows.                                  *)
(*   str        a TLA+ string; characters are taken with SubSeq.           *)
(*   dict       a sequence of items in insertion order (Python dicts       *)
(*              iterate in insertion order); an item is a record           *)
(*              [key, isstr, value], isstr telling what isinstance(value,  *)
(*              str) answers.  The four fixed keys of a category are a     *)
(*              TLA+ record.                                               *)
(*   list       a sequence.                                                *)
(*   None       the empty sequence << >>; a given string s is <<s>>.       *)
(*   a call     ends in [kind |-> "return", value |-> v] or in             *)
(*              [kind |-> "raise", exc |-> type, msg |-> message].         *)
(*                                                                         *)
(* The four box-drawing characters of the project layout example           *)
(* (data.py 12-29) are outside the character set of the module text and    *)
(* are written | ~ & $ ; none of the four occurs anywhere else in the      *)
(* store, and str.lower() leaves the originals unchanged as well.  The     *)
(* grave accent of the markdown code fences in the response templates      *)
(* (ai.py 278-459) is written ^ , a character no text of the package       *)
(* contains.                                                               *)
(***************************************************************************)
EXTENDS Integers, Sequences, FiniteSets, TLC

VARIABLES
  standards,  \* the content store: api._STANDARDS_MAP and the dicts of data.py
  op,         \* the API function called last
  args,       \* its arguments
  result,     \* how the call ended
  console,    \* what the command has printed with console.print
  files       \* the files written: None or the content, by path

vars == << standards, op, args, result, console, files >>

(***************************************************************************)
(* Python values                                                           *)
(***************************************************************************)
StrItem(k, v) == [key |-> k, isstr |-> TRUE, value |-> v]
DictItem(k, v) == [key |-> k, isstr |-> FALSE, value |-> v]

None == << >>
Some(s) == << s >>

Return(v) == [kind |-> "return", value |-> v]
Raise(e, m) == [kind |-> "raise", exc |-> e, msg |-> m]

(***************************************************************************)
(* The content store (standards/data.py)                                   *)
(***************************************************************************)
(* data.py 6-40 *)
PROJECT_STRUCTURE ==
  [ title |-> "Project Structure",
    description |-> "Recommended src-layout structure for Python projects",
    examples |-> <<
      <<
        StrItem("title",
          "Standard project layout"),
        StrItem("code",
          "\n"
          \o "project/\n"
          \o "&~~ src/\n"
          \o "|   $~~ package_name/\n"
          \o "|       &~~ __init__.py\n"
          \o "|       &~~ main.py\n"
          \o "|       &~~ api/         # For web/API projects\n"
          \o "|       &~~ core/        # Core functionality\n"
          \o "|       &~~ db/          # Database related code\n"
          \o "|       &~~ models/      # Data models\n"
          \o "|       $~~ schemas/     # Data validation schemas\n"
          \o "&~~ tests/\n"
          \o "|   &~~ __init__.py\n"
          \o "|   $~~ test_*.py\n"
          \o "&~~ pyproject.toml\n"
          \o "&~~ README.md\n"
          \o "$~~ .gitignore\n") >> >>,
    guidelines |-> <<
      "Use src-layout for all projects",
      "Keep package name and directory structure aligned",
      "Organize related functionality into modules",
      "Use __init__.py files to define public API",
      "Separate tests from implementation code",
      "Use pyproject.toml for project configuration" >> ]

(* data.py 43-66 *)
DEVELOPMENT_TOOLS ==
  [ title |-> "Development Tools",
    description |-> "Recommended tools for Python development",
    examples |-> <<
      <<
        StrItem("title",
          "Common Hatch commands"),
        DictItem("commands", <<
            StrItem("tests", "hatch run test"),
            StrItem("linting", "hatch run lint"),
            StrItem("type_checking", "hatch run type"),
            StrItem("formatting", "hatch run format"),
            StrItem("development_server", "hatch run dev") >>) >> >>,
    guidelines |-> <<
      "Use Ruff for linting and formatting",
      "Use MyPy (with --strict) for static type checking",
      "Use Pytest for testing",
      "Use Hatch for project management",
      "Use Docker for containerization when needed",
      "Always use pyproject.toml for project configuration" >> ]

(* data.py 69-125 *)
OOP_PRINCIPLES ==
  [ title |-> "Object-Oriented Programming Principles",
    description |-> "Best practices for OOP in Python",
    examples |-> <<
      <<
        StrItem("title",
          "Single Responsibility Principle (SRP)"),
        StrItem("bad_example",
          "\n"
          \o "# Bad: Class doing too much\n"
          \o "class UserManager:\n"
          \o "    def create_user(self) -> None: ...\n"
          \o "    def send_email(self) -> None: ...\n"
          \o "    def validate_password(self) -> None: ...\n"),
        StrItem("good_example",
          "\n"
          \o "# Good: Separate responsibilities\n"
          \o "class UserCreator:\n"
          \o "    def create_user(self) -> None: ...\n"
          \o "\n"
          \o "class EmailService:\n"
          \o "    def send_email(self) -> None: ...\n"
          \o "\n"
          \o "class PasswordValidator:\n"
          \o "    def validate_password(self) -> None: ...\n") >>,
      <<
        StrItem("title",
          "Open/Closed Principle (OCP)"),
        StrItem("bad_example",
          "\n"
          \o "# Bad: Modifying existing class\n"
          \o "class PaymentProcessor:\n"
          \o "    def process_payment(self, payment_type: str) -> None:\n"
          \o "        if payment_type == \"credit\":\n"
          \o "            # process credit\n"
          \o "        elif payment_type == \"paypal\":\n"
          \o "            # process paypal\n"),
        StrItem("good_example",
          "\n"
          \o "# Good: Extending through inheritance\n"
          \o "class PaymentProcessor:\n"
          \o "    def process_payment(self) -> None: ...\n"
          \o "\n"
          \o "class CreditCardProcessor(PaymentProcessor):\n"
          \o "    def process_payment(self) -> None: ...\n"
          \o "\n"
          \o "class PayPalProcessor(PaymentProcessor):\n"
          \o "    def process_payment(self) -> None: ...\n") >> >>,
    guidelines |-> <<
      "Apply Single Responsibility Principle (SRP)",
      "Follow Open/Closed Principle (OCP)",
      "Use Interface Segregation where appropriate",
      "Apply Dependency Inversion for loosely coupled code",
      "Prefer Composition over Inheritance" >> ]

(* data.py 128-165 *)
DESIGN_PATTERNS ==
  [ title |-> "Design Patterns",
    description |-> "Recommended design patterns for Python",
    examples |-> <<
      <<
        StrItem("title",
          "Factory Pattern"),
        StrItem("code",
          "\n"
          \o "class PaymentMethodFactory:\n"
          \o "    @staticmethod\n"
          \o "    def create_payment_method(method_type: str) -> PaymentMethod:\n"
          \o "        match method_type:\n"
          \o "            case \"credit\": return CreditCardPayment()\n"
          \o "            case \"paypal\": return PayPalPayment()\n"
          \o "            case _: raise ValueError(f\"Unknown payment method: {method_type}\")\n") >>,
      <<
        StrItem("title",
          "Strategy Pattern"),
        StrItem("code",
          "\n"
          \o "class SortStrategy(Protocol):\n"
          \o "    def sort(self, data: list[int]) -> list[int]: ...\n"
          \o "\n"
          \o "class QuickSort:\n"
          \o "    def sort(self, data: list[int]) -> list[int]: ...\n"
          \o "\n"
          \o "class MergeSort:\n"
          \o "    def sort(self, data: list[int]) -> list[int]: ...\n") >> >>,
    guidelines |-> <<
      "Use Factory Pattern for object creation",
      "Apply Strategy Pattern for interchangeable algorithms",
      "Implement Observer Pattern for event handling",
      "Use Repository Pattern for data access",
      "Use patterns judiciously - don't over-engineer" >> ]

(* data.py 168-212 *)
DATA_STRUCTURES ==
  [ title |-> "Pythonic Data Structures and Idioms",
    description |-> "Recommended data structures and Python idioms",
    examples |-> <<
      <<
        StrItem("title",
          "Appropriate data structures"),
        StrItem("code",
          "\n"
          \o "# Sets for unique items\n"
          \o "unique_items: set[str] = {\"apple\", \"banana\", \"apple\"}\n"
          \o "\n"
          \o "# Dicts for key-value pairs\n"
          \o "user_preferences: dict[str, Any] = {\n"
          \o "    \"theme\": \"dark\",\n"
          \o "    \"notifications\": True\n"
          \o "}\n"
          \o "\n"
          \o "# Lists for ordered collections\n"
          \o "items: list[str] = [\"first\", \"second\", \"third\"]\n") >>,
      <<
        StrItem("title",
          "Built-in types"),
        StrItem("code",
          "\n"
          \o "# Use Enum for constants\n"
          \o "class Color(Enum):\n"
          \o "    RED = \"red\"\n"
          \o "    GREEN = \"green\"\n"
          \o "    BLUE = \"blue\"\n"
          \o "\n"
          \o "# Use NamedTuple for simple data\n"
          \o "class Point(NamedTuple):\n"
          \o "    x: float\n"
          \o "    y: float\n") >> >>,
    guidelines |-> <<
      "Choose appropriate data structures for the use case",
      "Use sets for collections of unique items",
      "Use dictionaries for lookups and mappings",
      "Use lists for ordered collections",
      "Leverage Enum for structured constants",
      "Use NamedTuple and dataclasses for simple data objects" >> ]

(* data.py 215-257 *)
MODERN_FEATURES ==
  [ title |-> "Modern Python Features",
    description |-> "Recent Python features to leverage",
    examples |-> <<
      <<
        StrItem("title",
          "Data Classes"),
        StrItem("code",
          "\n"
          \o "@dataclass(slots=True)\n"
          \o "class User:\n"
          \o "    name: str\n"
          \o "    email: str\n"
          \o "    age: int\n"
          \o "    is_active: bool = True\n") >>,
      <<
        StrItem("title",
          "Type Annotations and Generics"),
        StrItem("code",
          "\n"
          \o "def process_items[T](items: list[T]) -> list[T]:\n"
          \o "    return [item for item in items if item is not None]\n") >>,
      <<
        StrItem("title",
          "Context Managers"),
        StrItem("code",
          "\n"
          \o "@contextmanager\n"
          \o "def managed_resource():\n"
          \o "    resource = acquire_resource()\n"
          \o "    try:\n"
          \o "        yield resource\n"
          \o "    finally:\n"
          \o "        release_resource(resource)\n") >> >>,
    guidelines |-> <<
      "Use dataclasses for data containers",
      "Apply type annotations with PEP 695 generics",
      "Leverage context managers for resource handling",
      "Use structural pattern matching for complex conditionals",
      "Take advantage of f-strings for string formatting" >> ]

(* data.py 260-295 *)
FUNCTIONAL_PROGRAMMING ==
  [ title |-> "Functional Programming in Python",
    description |-> "Functional programming techniques for Python",
    examples |-> <<
      <<
        StrItem("title",
          "List Comprehensions"),
        StrItem("code",
          "\n"
          \o "squares = [x**2 for x in range(10) if x % 2 == 0]\n") >>,
      <<
        StrItem("title",
          "Generator Expressions"),
        StrItem("code",
          "\n"
          \o "large_squares = (x**2 for x in range(1000000) if x % 2 == 0)\n") >>,
      <<
        StrItem("title",
          "Lambda Functions"),
        StrItem("good_example",
          "\n"
          \o "# Good: Simple operations\n"
          \o "square = lambda x: x**2\n"),
        StrItem("bad_example",
          "\n"
          \o "# Bad: Complex logic\n"
          \o "process_data = lambda x: (x**2 if x > 0 else 0) + (x if x < 10 else 10)\n") >> >>,
    guidelines |-> <<
      "Use list comprehensions over loops when appropriate",
      "Prefer generator expressions for large datasets",
      "Use lambda functions sparingly and only for simple operations",
      "Prefer comprehensions over map/filter/reduce",
      "Use higher-order functions to abstract patterns" >> ]

(* data.py 298-342 *)
ERROR_HANDLING ==
  [ title |-> "Error Handling and Resource Management",
    description |-> "Best practices for handling errors and resources",
    examples |-> <<
      <<
        StrItem("title",
          "Custom exceptions"),
        StrItem("code",
          "\n"
          \o "class DomainError(Exception):\n"
          \o "    \"\"\"Base exception for all domain errors.\"\"\"\n"
          \o "    \n"
          \o "class UserNotFoundError(DomainError):\n"
          \o "    \"\"\"Raised when a user cannot be found.\"\"\"\n"
          \o "    def __init__(self, user_id: str) -> None:\n"
          \o "        self.user_id = user_id\n"
          \o "        super().__init__(f\"User not found: {user_id}\")\n") >>,
      <<
        StrItem("title",
          "Context managers for resources"),
        StrItem("code",
          "\n"
          \o "with open(\"file.txt\") as f:\n"
          \o "    data = f.read()\n"
          \o "    \n"
          \o "# Or custom context managers\n"
          \o "@contextmanager\n"
          \o "def database_transaction():\n"
          \o "    transaction = db.begin()\n"
          \o "    try:\n"
          \o "        yield transaction\n"
          \o "        transaction.commit()\n"
          \o "    except Exception:\n"
          \o "        transaction.rollback()\n"
          \o "        raise\n") >> >>,
    guidelines |-> <<
      "Use specific exceptions rather than generic ones",
      "Create custom exception hierarchies for domain errors",
      "Always use context managers for resource management",
      "Catch only exceptions you can handle",
      "Include relevant error context in exception messages",
      "Document error conditions in function docstrings" >> ]

(* data.py 345-383 *)
TESTING ==
  [ title |-> "Testing and Quality",
    description |-> "Best practices for testing Python code",
    examples |-> <<
      <<
        StrItem("title",
          "Unit test"),
        StrItem("code",
          "\n"
          \o "def test_user_creation():\n"
          \o "    user = User(name=\"Test\", email=\"test@example.com\")\n"
          \o "    assert user.name == \"Test\"\n"
          \o "    assert user.email == \"test@example.com\"\n"
          \o "    assert user.is_active is True  # Default value\n") >>,
      <<
        StrItem("title",
          "Mocking dependencies"),
        StrItem("code",
          "\n"
          \o "@patch(\"app.services.email_sender.send_email\")\n"
          \o "def test_welcome_email(mock_send_email):\n"
          \o "    service = UserService()\n"
          \o "    service.create_user(\"Test\", \"test@example.com\")\n"
          \o "    \n"
          \o "    mock_send_email.assert_called_once_with(\n"
          \o "        to=\"test@example.com\",\n"
          \o "        subject=\"Welcome to Our Service\",\n"
          \o "        body=ANY,\n"
          \o "    )\n") >> >>,
    guidelines |-> <<
      "Write unit tests for all public methods",
      "Consider property-based testing for complex logic",
      "Always mock external dependencies",
      "Include type checking in CI/CD pipeline",
      "Aim for high test coverage on business logic",
      "Use fixtures to set up test data" >> ]

(* data.py 386-397 *)
ENVIRONMENT ==
  [ title |-> "Development Environment",
    description |-> "Recommended development environment setup",
    examples |-> << >>,
    guidelines |-> <<
      "Use Python 3.11+ for new projects",
      "Set up Docker for consistent development environments",
      "Use VS Code with Python extensions for a great IDE experience",
      "Manage virtual environments with Hatch or pixi",
      "Configure editor to use Ruff for linting and formatting" >> ]

(* data.py 400-416 *)
AI_GUIDELINES ==
  [ title |-> "AI Assistance Guidelines",
    description |-> "Guidelines for AI assistants generating Python code",
    examples |-> << >>,
    guidelines |-> <<
      "Always include type hints in generated code",
      "Use modern Python features like PEP 695 generics",
      "Follow the project's linting rules",
      "Maintain or improve test coverage",
      "Consider async/await patterns where appropriate",
      "Follow the src-layout project structure",
      "Use Hatch commands for development tasks",
      "Run ruff check and mypy --strict",
      "Document any non-obvious code decisions",
      "Consider performance implications of suggestions" >> ]

\* PROJECT_TYPES with the guideline list left empty
PROJECT_TYPES_no_guidelines ==
  [ title |-> "Common Project Types",
    description |-> "Recommendations for specific types of Python projects",
    examples |-> << >>,
    guidelines |-> << >> ]

(* data.py 419-429 *)
PROJECT_TYPES ==
  [ title |-> "Common Project Types",
    description |-> "Recommendations for specific types of Python projects",
    examples |-> << >>,
    guidelines |-> <<
      "Web/API: Use FastAPI, SQLAlchemy, Pydantic, and Alembic",
      "CLI: Use Click or Typer with Rich for terminal output",
      "Data Processing: Use pandas, numpy with proper error handling",
      "Libraries: Design clear public APIs with comprehensive docs" >> ]

(* api.py 49-62: the categories in declaration order *)
STANDARDS_MAP ==
  << [key |-> "project_structure", value |-> PROJECT_STRUCTURE],
     [key |-> "development_tools", value |-> DEVELOPMENT_TOOLS],
     [key |-> "oop_principles", value |-> OOP_PRINCIPLES],
     [key |-> "design_patterns", value |-> DESIGN_PATTERNS],
     [key |-> "data_structures", value |-> DATA_STRUCTURES],
     [key |-> "modern_features", value |-> MODERN_FEATURES],
     [key |-> "functional_programming", value |-> FUNCTIONAL_PROGRAMMING],
     [key |-> "error_handling", value |-> ERROR_HANDLING],
     [key |-> "testing", value |-> TESTING],
     [key |-> "environment", value |-> ENVIRONMENT],
     [key |-> "ai_guidelines", value |-> AI_GUIDELINES],
     [key |-> "project_types", value |-> PROJECT_TYPES] >>

(* api.py 24-37: the closed set of category keys *)
StandardCategory ==
  { "project_structure", "development_tools", "oop_principles",
    "design_patterns", "data_structures", "modern_features",
    "functional_programming", "error_handling", "testing", "environment",
    "ai_guidelines", "project_types" }

(* api.py 24-37: the category keys in the order of their declaration *)
CategoryDeclaration ==
  << "project_structure", "development_tools", "oop_principles",
     "design_patterns", "data_structures", "modern_features",
     "functional_programming", "error_handling", "testing", "environment",
     "ai_guidelines", "project_types" >>

(***************************************************************************)
(* Python built-ins used by the code                                       *)
(***************************************************************************)
\* key in d
HasKey(d, k) == \E i \in 1..Len(d) : d[i].key = k

\* the item of d[k]; a dict holds a key once
ItemOf(d, k) == d[CHOOSE i \in 1..Len(d) : d[i].key = k]

\* d[k]
Get(d, k) == ItemOf(d, k).value

CharAt(s, i) == SubSeq(s, i, i)

UpperCase == "ABCDEFGHIJKLMNOPQRSTUVWXYZ"
LowerCase == "abcdefghijklmnopqrstuvwxyz"

ToLower ==
  [ c \in { CharAt(UpperCase, i) : i \in 1..Len(UpperCase) } |->
      CharAt(LowerCase, CHOOSE i \in 1..Len(UpperCase) : CharAt(UpperCase, i) = c) ]

\* str.lower() of one character
LowerChar(c) == IF c \in DOMAIN ToLower THEN ToLower[c] ELSE c

\* str.lower(): every character lower-cased, the length kept
RECURSIVE Lower(_)
Lower(s) ==
  IF Len(s) = 0 THEN ""
  ELSE IF Len(s) = 1 THEN LowerChar(s)
  ELSE LET h == Len(s) \div 2
       IN Lower(SubSeq(s, 1, h)) \o Lower(SubSeq(s, h + 1, Len(s)))

\* q in t, for strings
Contains(q, t) ==
  \/ Len(q) = 0
  \/ \E i \in 1..(Len(t) - Len(q) + 1) : SubSeq(t, i, i + Len(q) - 1) = q

Whitespace == { " ", "\t", "\n", "\r", "\f" }

\* str.strip()
Strip(s) ==
  LET keep == { i \in 1..Len(s) : CharAt(s, i) \notin Whitespace }
  IN IF keep = {} THEN ""
     ELSE SubSeq(s, CHOOSE i \in keep : \A j \in keep : i <= j,
                    CHOOSE i \in keep : \A j \in keep : j <= i)

\* the escape repr() writes for one character inside the quote q
ReprChar(c, q) ==
  IF c = "\\" THEN "\\\\"
  ELSE IF c = q THEN "\\" \o q
  ELSE IF c = "\n" THEN "\\n"
  ELSE IF c = "\t" THEN "\\t"
  ELSE IF c = "\r" THEN "\\r"
  ELSE c

RECURSIVE ReprChars(_, _)
ReprChars(s, q) ==
  IF Len(s) = 0 THEN ""
  ELSE IF Len(s) = 1 THEN ReprChar(s, q)
  ELSE LET h == Len(s) \div 2
       IN ReprChars(SubSeq(s, 1, h), q) \o ReprChars(SubSeq(s, h + 1, Len(s)), q)

\* repr() of a str: single quotes, double quotes when the text holds a single
\* quote and no double quote
ReprStr(s) ==
  LET q == IF Contains("'", s) /\ ~Contains("\"", s) THEN "\"" ELSE "'"
  IN q \o ReprChars(s, q) \o q

\* str() of a dict: {'key': value, ...} in insertion order
RECURSIVE ReprDict(_)
RECURSIVE ReprItems(_, _)
ReprItems(d, i) ==
  IF i > Len(d) THEN ""
  ELSE (IF i > 1 THEN ", " ELSE "")
       \o ReprStr(d[i].key) \o ": "
       \o (IF d[i].isstr THEN ReprStr(d[i].value) ELSE ReprDict(d[i].value))
       \o ReprItems(d, i + 1)
ReprDict(d) == "{" \o ReprItems(d, 1) \o "}"

\* str() of the value of an item
Str(item) == IF item.isstr THEN item.value ELSE ReprDict(item.value)

\* bool() of an optional string: None and "" are false
Truthy(s) == s # None /\ s[1] # ""

\* the place of the first line feed of s, 0 when there is none
FirstLineFeed(s) ==
  IF \E i \in 1..Len(s) : CharAt(s, i) = "\n"
    THEN CHOOSE i \in 1..Len(s) :
           /\ CharAt(s, i) = "\n"
           /\ \A j \in 1..(i - 1) : CharAt(s, j) # "\n"
    ELSE 0

\* str.split("\n")
RECURSIVE SplitLines(_)
SplitLines(s) ==
  IF FirstLineFeed(s) = 0 THEN << s >>
  ELSE << SubSeq(s, 1, FirstLineFeed(s) - 1) >>
       \o SplitLines(SubSeq(s, FirstLineFeed(s) + 1, Len(s)))

(***************************************************************************)
(* core/api.py                                                             *)
(***************************************************************************)
\* get_standard with a fallback instead of the error: an unknown key is
\* answered with the first category (the fallback cli.py 101 spells out)
get_standard_fallback(category) ==
  IF ~HasKey(standards, category)
    THEN Return(Get(standards, "project_structure"))
    ELSE Return(Get(standards, category))

\* api.py 74-89
get_standard(category) ==
  IF ~HasKey(standards, category)
    THEN Raise("ValueError", "Unknown standard category: " \o category)
    ELSE Return(Get(standards, category))


\* SearchGuidelines that leaves the loop at the first guideline that matches
RECURSIVE SearchGuidelines_first_match(_, _, _, _)
SearchGuidelines_first_match(category, guidelines, query, i) ==
  IF i > Len(guidelines) THEN << >>
  ELSE IF Contains(query, Lower(guidelines[i]))
    THEN << << category, "guideline", guidelines[i] >> >>
    ELSE SearchGuidelines_first_match(category, guidelines, query, i + 1)

\* api.py 113-116: the guidelines of one category, from the i-th on
RECURSIVE SearchGuidelines(_, _, _, _)
SearchGuidelines(category, guidelines, query, i) ==
  IF i > Len(guidelines) THEN << >>
  ELSE (IF Contains(query, Lower(guidelines[i]))
          THEN << << category, "guideline", guidelines[i] >> >>
          ELSE << >>)
       \o SearchGuidelines(category, guidelines, query, i + 1)

\* SearchExample that looks into the text of every value, str(value) for a
\* nested mapping, and returns the value it has matched
RECURSIVE SearchExample_any_value(_, _, _, _)
SearchExample_any_value(category, example, query, k) ==
  IF k > Len(example) THEN << >>
  ELSE (IF Contains(query, Lower(Str(example[k])))
          THEN << << category, "example." \o example[k].key, example[k].value >> >>
          ELSE << >>)
       \o SearchExample_any_value(category, example, query, k + 1)

\* api.py 120-122: the items of one example, from the k-th on
RECURSIVE SearchExample(_, _, _, _)
SearchExample(category, example, query, k) ==
  IF k > Len(example) THEN << >>
  ELSE (IF example[k].isstr /\ Contains(query, Lower(example[k].value))
          THEN << << category, "example." \o example[k].key, example[k].value >> >>
          ELSE << >>)
       \o SearchExample(category, example, query, k + 1)

\* api.py 118-122: the examples of one category, from the j-th on
RECURSIVE SearchExamples(_, _, _, _)
SearchExamples(category, examples, query, j) ==
  IF j > Len(examples) THEN << >>
  ELSE SearchExample(category, examples[j], query, 1)
       \o SearchExamples(category, examples, query, j + 1)

\* SearchCategory with the description branch copied from the title branch
\* and the content left as the title
SearchCategory_copied_title(category, data, query) ==
  (IF Contains(query, Lower(data.title))
     THEN << << category, "title", data.title >> >>
     ELSE << >>)
  \o (IF Contains(query, Lower(data.description))
        THEN << << category, "description", data.title >> >>
        ELSE << >>)
  \o SearchGuidelines(category, data.guidelines, query, 1)
  \o SearchExamples(category, data.examples, query, 1)

\* api.py 105-122: the body of the loop over the categories
SearchCategory(category, data, query) ==
  (IF Contains(query, Lower(data.title))
     THEN << << category, "title", data.title >> >>
     ELSE << >>)
  \o (IF Contains(query, Lower(data.description))
        THEN << << category, "description", data.description >> >>
        ELSE << >>)
  \o SearchGuidelines(category, data.guidelines, query, 1)
  \o SearchExamples(category, data.examples, query, 1)

\* SearchFrom walking the map from its last category to its first
RECURSIVE SearchFrom_reversed(_, _)
SearchFrom_reversed(query, i) ==
  IF i > Len(standards) THEN << >>
  ELSE SearchFrom_reversed(query, i + 1)
       \o SearchCategory(standards[i].key, standards[i].value, query)

\* api.py 104: the categories in the order of the map, from the i-th on
RECURSIVE SearchFrom(_, _)
SearchFrom(query, i) ==
  IF i > Len(standards) THEN << >>
  ELSE SearchCategory(standards[i].key, standards[i].value, query)
       \o SearchFrom(query, i + 1)

\* search_standards with an early return for the empty query
search_standards_skip_empty(query) ==
  IF query = "" THEN Return(<< >>) ELSE Return(SearchFrom(Lower(query), 1))

\* api.py 92-124
search_standards(query) == Return(SearchFrom(Lower(query), 1))

\* get_all_categories walking the map from its last entry to its first
get_all_categories_reversed ==
  Return([i \in 1..Len(standards) |->
            << standards[Len(standards) + 1 - i].key,
               standards[Len(standards) + 1 - i].value.title >>])

\* api.py 65-71
get_all_categories ==
  Return([i \in 1..Len(standards) |->
            << standards[i].key, standards[i].value.title >>])

\* api.py 127-146
get_project_toolchain ==
  Return([linter |-> "ruff",
          formatter |-> "ruff format",
          type_checker |-> "mypy --strict",
          test_framework |-> "pytest",
          build_system |-> "hatch",
          commands |-> << StrItem("lint", "hatch run lint"),
                          StrItem("format", "hatch run format"),
                          StrItem("type_check", "hatch run type"),
                          StrItem("test", "hatch run test"),
                          StrItem("dev", "hatch run dev") >>])

\* api.py 165-166: [str(p["title"]) for p in examples]
ExampleTitleList(examples) ==
  IF \A i \in 1..Len(examples) : HasKey(examples[i], "title")
    THEN Return([i \in 1..Len(examples) |-> Str(ItemOf(examples[i], "title"))])
    ELSE Raise("KeyError", "'title'")

\* for_ai_assistant with the two guideline lists exchanged
for_ai_assistant_lists_exchanged ==
  LET oop_principles == ExampleTitleList(Get(standards, "oop_principles").examples)
      modern_features == ExampleTitleList(Get(standards, "modern_features").examples)
  IN IF oop_principles.kind = "raise" THEN oop_principles
     ELSE IF modern_features.kind = "raise" THEN modern_features
     ELSE Return([general_guidelines |-> Get(standards, "project_structure").guidelines,
                  project_structure |-> Get(standards, "ai_guidelines").guidelines,
                  python_version |-> "3.11+",
                  typing |-> "Always use type hints, including PEP 695 generics",
                  preferred_tools |-> << StrItem("linter", "ruff"),
                                         StrItem("type_checker", "mypy --strict"),
                                         StrItem("package_manager", "hatch") >>,
                  oop_principles |-> oop_principles.value,
                  modern_features |-> modern_features.value])

\* api.py 149-167
for_ai_assistant ==
  LET oop_principles == ExampleTitleList(Get(standards, "oop_principles").examples)
      modern_features == ExampleTitleList(Get(standards, "modern_features").examples)
  IN IF oop_principles.kind = "raise" THEN oop_principles
     ELSE IF modern_features.kind = "raise" THEN modern_features
     ELSE Return([general_guidelines |-> Get(standards, "ai_guidelines").guidelines,
                  project_structure |-> Get(standards, "project_structure").guidelines,
                  python_version |-> "3.11+",
                  typing |-> "Always use type hints, including PEP 695 generics",
                  preferred_tools |-> << StrItem("linter", "ruff"),
                                         StrItem("type_checker", "mypy --strict"),
                                         StrItem("package_manager", "hatch") >>,
                  oop_principles |-> oop_principles.value,
                  modern_features |-> modern_features.value])

(***************************************************************************)
(* ai.py                                                                   *)
(***************************************************************************)
\* PrimaryText without the strip()
PrimaryText_unstripped(example) ==
  IF HasKey(example, "code")
    THEN Return(Str(ItemOf(example, "code")))
  ELSE IF HasKey(example, "good_example")
    THEN Return(Str(ItemOf(example, "good_example")))
  ELSE Return(ReprDict(example))

\* PrimaryText reading example.get("code", "") only
PrimaryText_code_only(example) ==
  IF HasKey(example, "code")
    THEN Return(Strip(Str(ItemOf(example, "code"))))
  ELSE Return("")

\* ai.py 76-81 and 85-90: the text returned for the selected example
PrimaryText(example) ==
  IF HasKey(example, "code")
    THEN Return(Strip(Str(ItemOf(example, "code"))))
  ELSE IF HasKey(example, "good_example")
    THEN Return(Strip(Str(ItemOf(example, "good_example"))))
  ELSE Return(ReprDict(example))

\* ai.py 74-82: the scan for the title, from the i-th example on
RECURSIVE FindExample(_, _, _, _)
FindExample(category, examples, title, i) ==
  IF i > Len(examples)
    THEN Raise("ValueError",
               "Example '" \o title \o "' not found in category: " \o category)
  ELSE IF ~HasKey(examples[i], "title")
    THEN Raise("KeyError", "'title'")
  ELSE IF ItemOf(examples[i], "title").isstr /\ Get(examples[i], "title") = title
    THEN PrimaryText(examples[i])
  ELSE FindExample(category, examples, title, i + 1)

\* get_example scanning for the title before it looks for an empty example list
get_example_scan_first(category, example_title) ==
  LET standard == get_standard(category)
  IN IF standard.kind = "raise" THEN standard
     ELSE IF Truthy(example_title)
       THEN FindExample(category, standard.value.examples, example_title[1], 1)
     ELSE IF Len(standard.value.examples) = 0
       THEN Raise("ValueError", "No examples available for category: " \o category)
     ELSE PrimaryText(standard.value.examples[1])

\* ai.py 54-90
get_example(category, example_title) ==
  LET standard == get_standard(category)
  IN IF standard.kind = "raise" THEN standard
     ELSE IF Len(standard.value.examples) = 0
       THEN Raise("ValueError", "No examples available for category: " \o category)
     ELSE IF Truthy(example_title)
       THEN FindExample(category, standard.value.examples, example_title[1], 1)
     ELSE PrimaryText(standard.value.examples[1])

\* ai.py 118-122: the lines that assign to an attribute of self
InitAssignments(code_snippet) ==
  IF Contains("def __init__", code_snippet)
    THEN Cardinality({ n \in 1..Len(SplitLines(code_snippet)) :
                         /\ Contains("self.", SplitLines(code_snippet)[n])
                         /\ Contains(" = ", SplitLines(code_snippet)[n]) })
    ELSE 0

\* Heuristics with the check for generic exceptions placed before the check
\* for open()
Heuristics_exceptions_early(code_snippet) ==
  (IF Contains("def ", code_snippet) /\ ~Contains(") ->", code_snippet)
     THEN << "Add type hints to function return values and parameters" >>
     ELSE << >>)
  \o (IF /\ Contains("lambda", code_snippet)
         /\ Contains("if", code_snippet)
         /\ Contains("else", code_snippet)
        THEN << "Replace complex lambda functions with named functions for better readability" >>
        ELSE << >>)
  \o (IF InitAssignments(code_snippet) >= 3
        THEN << "Consider using @dataclass to simplify this class definition" >>
        ELSE << >>)
  \o (IF /\ Contains("def ", code_snippet)
         /\ Contains("[]", code_snippet)
         /\ Contains(" = []", code_snippet)
        THEN << "Avoid using mutable default arguments (lists, dicts, etc.)" >>
        ELSE << >>)
  \o (IF Contains("except:", code_snippet) \/ Contains("except Exception:", code_snippet)
        THEN << "Use specific exceptions instead of catching all exceptions" >>
        ELSE << >>)
  \o (IF Contains("open(", code_snippet) /\ ~Contains("with open", code_snippet)
        THEN << "Use context managers (with statement) for file operations" >>
        ELSE << >>)

\* ai.py 107-137: the six checks, each with the suggestion it appends
Heuristics(code_snippet) ==
  (IF Contains("def ", code_snippet) /\ ~Contains(") ->", code_snippet)
     THEN << "Add type hints to function return values and parameters" >>
     ELSE << >>)
  \o (IF /\ Contains("lambda", code_snippet)
         /\ Contains("if", code_snippet)
         /\ Contains("else", code_snippet)
        THEN << "Replace complex lambda functions with named functions for better readability" >>
        ELSE << >>)
  \o (IF InitAssignments(code_snippet) >= 3
        THEN << "Consider using @dataclass to simplify this class definition" >>
        ELSE << >>)
  \o (IF /\ Contains("def ", code_snippet)
         /\ Contains("[]", code_snippet)
         /\ Contains(" = []", code_snippet)
        THEN << "Avoid using mutable default arguments (lists, dicts, etc.)" >>
        ELSE << >>)
  \o (IF Contains("open(", code_snippet) /\ ~Contains("with open", code_snippet)
        THEN << "Use context managers (with statement) for file operations" >>
        ELSE << >>)
  \o (IF Contains("except:", code_snippet) \/ Contains("except Exception:", code_snippet)
        THEN << "Use specific exceptions instead of catching all exceptions" >>
        ELSE << >>)

\* ShortTips that stops after the first result
RECURSIVE ShortTips_first_only(_, _)
ShortTips_first_only(standards_results, i) ==
  IF i > Len(standards_results) \/ i > 1 THEN << >>
  ELSE (IF Len(standards_results[i][3]) < 200
          THEN << standards_results[i][3] >>
          ELSE << >>)
       \o ShortTips_first_only(standards_results, i + 1)

\* ai.py 142-144: the short contents among the first two results
RECURSIVE ShortTips(_, _)
ShortTips(standards_results, i) ==
  IF i > Len(standards_results) \/ i > 2 THEN << >>
  ELSE (IF Len(standards_results[i][3]) < 200
          THEN << standards_results[i][3] >>
          ELSE << >>)
       \o ShortTips(standards_results, i + 1)

\* ai.py 93-146
suggest_improvements(code_snippet) ==
  Return(Heuristics(code_snippet)
         \o ShortTips(search_standards("best practice").value, 1))

\* ai.py 161-173: the layout returned when the example is missing
FALLBACK_STRUCTURE ==
  Strip("\n"
        \o "project/\n"
        \o "&~~ src/\n"
        \o "|   $~~ package_name/\n"
        \o "|       &~~ __init__.py\n"
        \o "|       &~~ main.py\n"
        \o "&~~ tests/\n"
        \o "|   &~~ __init__.py\n"
        \o "|   $~~ test_*.py\n"
        \o "&~~ pyproject.toml\n"
        \o "&~~ README.md\n"
        \o "$~~ .gitignore\n")

\* ai.py 278-290: the text before the {structure}
STRUCTURE_HEAD ==
  "\n"
  \o "## Recommended Project Structure\n"
  \o "\n"
  \o "^^^\n"

\* ai.py 278-290: the text after the {structure}
STRUCTURE_TAIL ==
  "\n"
  \o "^^^\n"
  \o "\n"
  \o "**Key points:**\n"
  \o "- Use src-layout for better packaging\n"
  \o "- Keep tests separate from implementation\n"
  \o "- Use pyproject.toml for configuration\n"
  \o "- Group related functionality in modules\n"

\* ai.py 294-309
TOOLS_TEXT ==
  "\n"
  \o "## Recommended Toolchain\n"
  \o "\n"
  \o "- **Linter/Formatter:** Ruff\n"
  \o "- **Type Checking:** MyPy (--strict)\n"
  \o "- **Testing:** Pytest\n"
  \o "- **Project Management:** Hatch\n"
  \o "- **Python Version:** 3.11+\n"
  \o "\n"
  \o "**Common Commands:**\n"
  \o "- ^hatch run test^: Run tests\n"
  \o "- ^hatch run lint^: Run linting\n"
  \o "- ^hatch run type^: Run type checking\n"
  \o "- ^hatch run format^: Format code\n"
  \o "- ^hatch run all^: Run all checks and tests\n"

\* ai.py 315-328: the text before the {example}
OOP_HEAD ==
  "\n"
  \o "## OOP Best Practices\n"
  \o "\n"
  \o "1. **Single Responsibility Principle (SRP)**: Each class should have one responsibility\n"
  \o "2. **Open/Closed Principle (OCP)**: Open for extension, closed for modification\n"
  \o "3. **Interface Segregation**: Prefer focused interfaces over general-purpose ones\n"
  \o "4. **Dependency Inversion**: Depend on abstractions, not concretions\n"
  \o "5. **Composition over Inheritance**: Prefer composition to inheritance when possible\n"
  \o "\n"
  \o "**Example - Single Responsibility Principle:**\n"
  \o "^^^python\n"

\* ai.py 315-328: the text after the {example}
OOP_TAIL ==
  "\n"
  \o "^^^\n"

\* ai.py 330-338
OOP_PLAIN_TEXT ==
  "\n"
  \o "## OOP Best Practices\n"
  \o "\n"
  \o "1. **Single Responsibility Principle (SRP)**: Each class should have one responsibility\n"
  \o "2. **Open/Closed Principle (OCP)**: Open for extension, closed for modification\n"
  \o "3. **Interface Segregation**: Prefer focused interfaces over general-purpose ones\n"
  \o "4. **Dependency Inversion**: Depend on abstractions, not concretions\n"
  \o "5. **Composition over Inheritance**: Prefer composition to inheritance when possible\n"

\* ai.py 344-357: the text before the {example}
MODERN_HEAD ==
  "\n"
  \o "## Modern Python Features\n"
  \o "\n"
  \o "1. **Data Classes**: Use for simple data containers\n"
  \o "2. **Type Annotations**: Include type hints with PEP 695 generics\n"
  \o "3. **Pattern Matching**: Use for complex conditional logic\n"
  \o "4. **Async/Await**: For asynchronous programming\n"
  \o "5. **Context Managers**: For resource management\n"
  \o "\n"
  \o "**Example - Type Annotations and Generics:**\n"
  \o "^^^python\n"

\* ai.py 344-357: the text after the {example}
MODERN_TAIL ==
  "\n"
  \o "^^^\n"

\* ai.py 359-367
MODERN_PLAIN_TEXT ==
  "\n"
  \o "## Modern Python Features\n"
  \o "\n"
  \o "1. **Data Classes**: Use for simple data containers\n"
  \o "2. **Type Annotations**: Include type hints with PEP 695 generics\n"
  \o "3. **Pattern Matching**: Use for complex conditional logic\n"
  \o "4. **Async/Await**: For asynchronous programming\n"
  \o "5. **Context Managers**: For resource management\n"

\* ai.py 371-388
TESTING_RESPONSE_TEXT ==
  "\n"
  \o "## Testing Best Practices\n"
  \o "\n"
  \o "1. **Unit Tests for All Public Methods**: Ensure all public functionality is tested\n"
  \o "2. **Mock External Dependencies**: Use unittest.mock or pytest-mock\n"
  \o "3. **Property-Based Testing**: Consider hypothesis for complex logic\n"
  \o "4. **Type Checking in CI/CD**: Run mypy as part of CI pipeline\n"
  \o "5. **Test Fixtures**: Use pytest fixtures for test setup and reuse\n"
  \o "\n"
  \o "**Example - Basic Unit Test:**\n"
  \o "^^^python\n"
  \o "def test_user_creation():\n"
  \o "    user = User(name=\"Test\", email=\"test@example.com\")\n"
  \o "    assert user.name == \"Test\"\n"
  \o "    assert user.email == \"test@example.com\"\n"
  \o "    assert user.is_active is True  # Default value\n"
  \o "^^^\n"

\* ai.py 394-407: the text before the {example}
FUNCTIONAL_HEAD ==
  "\n"
  \o "## Functional Programming in Python\n"
  \o "\n"
  \o "1. **List Comprehensions**: For transforming lists\n"
  \o "2. **Generator Expressions**: For memory-efficient sequence processing\n"
  \o "3. **Lambda Functions**: For simple operations only\n"
  \o "4. **Higher-Order Functions**: Functions that take functions as parameters\n"
  \o "5. **Pure Functions**: Functions without side effects\n"
  \o "\n"
  \o "**Example - List Comprehensions:**\n"
  \o "^^^python\n"

\* ai.py 394-407: the text after the {example}
FUNCTIONAL_TAIL ==
  "\n"
  \o "^^^\n"

\* ai.py 409-417
FUNCTIONAL_PLAIN_TEXT ==
  "\n"
  \o "## Functional Programming in Python\n"
  \o "\n"
  \o "1. **List Comprehensions**: For transforming lists\n"
  \o "2. **Generator Expressions**: For memory-efficient sequence processing\n"
  \o "3. **Lambda Functions**: For simple operations only\n"
  \o "4. **Higher-Order Functions**: Functions that take functions as parameters\n"
  \o "5. **Pure Functions**: Functions without side effects\n"

\* ai.py 421-441
ERRORS_TEXT ==
  "\n"
  \o "## Error Handling Best Practices\n"
  \o "\n"
  \o "1. **Use Specific Exceptions**: Avoid catching general Exception\n"
  \o "2. **Create Custom Exceptions**: For domain-specific errors\n"
  \o "3. **Context Managers**: Use for resource management\n"
  \o "4. **Document Error Conditions**: In function docstrings\n"
  \o "5. **Include Context in Messages**: Make error messages informative\n"
  \o "\n"
  \o "**Example - Custom Exception Hierarchy:**\n"
  \o "^^^python\n"
  \o "class DomainError(Exception):\n"
  \o "    '''Base exception for all domain errors.'''\n"
  \o "    \n"
  \o "class UserNotFoundError(DomainError):\n"
  \o "    '''Raised when a user cannot be found.'''\n"
  \o "    def __init__(self, user_id: str) -> None:\n"
  \o "        self.user_id = user_id\n"
  \o "        super().__init__(f\"User not found: {user_id}\")\n"
  \o "^^^\n"

\* ai.py 445-459
QUICK_REFERENCE_TEXT ==
  "\n"
  \o "## Python Coding Standards - Quick Reference\n"
  \o "\n"
  \o "1. **Project Structure**: Use src-layout with pyproject.toml\n"
  \o "2. **Tools**: Ruff (linting/formatting), MyPy (type checking), Pytest (testing), Hatch (pkg mgmt)\n"
  \o "3. **Type Hints**: Always use type annotations with PEP 695 generics\n"
  \o "4. **Python Version**: Use Python 3.11+ for new projects\n"
  \o "5. **OOP Principles**: Follow SOLID principles, prefer composition over inheritance\n"
  \o "6. **Functional Features**: Use list comprehensions, generators, and simple lambdas\n"
  \o "7. **Modern Features**: Leverage dataclasses, pattern matching, async/await\n"
  \o "8. **Error Handling**: Use specific exceptions and context managers\n"
  \o "9. **Testing**: Write unit tests for all public methods\n"
  \o "\n"
  \o "For more details, use the ^pystandards^ CLI tool or import the ^python_ai_coding_standards^ package.\n"

\* ai.py 156-173: the scan for the layout example, from the i-th example on
RECURSIVE FindLayout(_, _)
FindLayout(examples, i) ==
  IF i > Len(examples)
    THEN Return(FALLBACK_STRUCTURE)
  ELSE IF /\ HasKey(examples[i], "title")
          /\ ItemOf(examples[i], "title").isstr
          /\ Get(examples[i], "title") = "Standard project layout"
    THEN IF HasKey(examples[i], "code")
           THEN Return(Strip(Str(ItemOf(examples[i], "code"))))
           ELSE Raise("KeyError", "'code'")
  ELSE FindLayout(examples, i + 1)

\* ai.py 149-173
get_project_structure ==
  LET standard == get_standard("project_structure")
  IN IF standard.kind = "raise" THEN standard
     ELSE FindLayout(standard.value.examples, 1)

\* the keywords of the structure bucket without "structure"
StructureTerms_no_structure == << "layout", "organization" >>

\* the keywords of the OOP bucket without "class"
OopTerms_no_class == << "oop", "object", "inheritance" >>

\* ai.py 276, 293, 312, 341, 370, 391, 420: the keywords of the buckets
StructureTerms == << "structure", "layout", "organization" >>
ToolsTerms == << "tools", "toolchain", "configuration", "setup" >>
OopTerms == << "oop", "class", "object", "inheritance" >>
ModernTerms == << "modern", "features", "dataclass", "typing" >>
TestingTerms == << "test", "testing", "pytest" >>
FunctionalTerms == << "functional", "lambda", "comprehension" >>
ErrorTerms == << "error", "exception", "handling" >>

\* any(term in query_lower for term in terms)
AnyTerm(terms, query_lower) ==
  \E i \in 1..Len(terms) : Contains(terms[i], query_lower)

\* ai.py 277-290: the f-string around the structure
StructureResponse(structure) ==
  IF structure.kind = "raise" THEN structure
  ELSE Return(STRUCTURE_HEAD \o structure.value \o STRUCTURE_TAIL)

\* WithExample that has no except clause: the error of get_example leaves
\* generate_standard_response
WithExample_propagates(example, head, tail, plain) ==
  IF example.kind = "raise" THEN example
  ELSE Return(head \o example.value \o tail)

\* ai.py 313-338, 342-367, 392-417: try: the f-string around the example;
\* except ValueError: the plain text; any other error leaves the function
WithExample(example, head, tail, plain) ==
  IF example.kind = "raise"
    THEN IF example.exc = "ValueError" THEN Return(plain) ELSE example
  ELSE Return(head \o example.value \o tail)

\* ai.py 313-338
OopResponse(example) == WithExample(example, OOP_HEAD, OOP_TAIL, OOP_PLAIN_TEXT)

\* ai.py 342-367
ModernResponse(example) ==
  WithExample(example, MODERN_HEAD, MODERN_TAIL, MODERN_PLAIN_TEXT)

\* ai.py 392-417
FunctionalResponse(example) ==
  WithExample(example, FUNCTIONAL_HEAD, FUNCTIONAL_TAIL, FUNCTIONAL_PLAIN_TEXT)

\* generate_standard_response that looks at the modern features keywords
\* before the OOP keywords
generate_standard_response_modern_first(query) ==
  LET query_lower == Lower(query)
  IN IF AnyTerm(StructureTerms, query_lower)
       THEN StructureResponse(get_project_structure)
     ELSE IF AnyTerm(ToolsTerms, query_lower)
       THEN Return(TOOLS_TEXT)
     ELSE IF AnyTerm(ModernTerms, query_lower)
       THEN ModernResponse(get_example("modern_features",
                                       Some("Type Annotations and Generics")))
     ELSE IF AnyTerm(OopTerms, query_lower)
       THEN OopResponse(get_example("oop_principles",
                                    Some("Single Responsibility Principle (SRP)")))
     ELSE IF AnyTerm(TestingTerms, query_lower)
       THEN Return(TESTING_RESPONSE_TEXT)
     ELSE IF AnyTerm(FunctionalTerms, query_lower)
       THEN FunctionalResponse(get_example("functional_programming",
                                           Some("List Comprehensions")))
     ELSE IF AnyTerm(ErrorTerms, query_lower)
       THEN Return(ERRORS_TEXT)
     ELSE Return(QUICK_REFERENCE_TEXT)

\* ai.py 261-459
generate_standard_response(query) ==
  LET query_lower == Lower(query)
  IN IF AnyTerm(StructureTerms, query_lower)
       THEN StructureResponse(get_project_structure)
     ELSE IF AnyTerm(ToolsTerms, query_lower)
       THEN Return(TOOLS_TEXT)
     ELSE IF AnyTerm(OopTerms, query_lower)
       THEN OopResponse(get_example("oop_principles",
                                    Some("Single Responsibility Principle (SRP)")))
     ELSE IF AnyTerm(ModernTerms, query_lower)
       THEN ModernResponse(get_example("modern_features",
                                       Some("Type Annotations and Generics")))
     ELSE IF AnyTerm(TestingTerms, query_lower)
       THEN Return(TESTING_RESPONSE_TEXT)
     ELSE IF AnyTerm(FunctionalTerms, query_lower)
       THEN FunctionalResponse(get_example("functional_programming",
                                           Some("List Comprehensions")))
     ELSE IF AnyTerm(ErrorTerms, query_lower)
       THEN Return(ERRORS_TEXT)
     ELSE Return(QUICK_REFERENCE_TEXT)

(***************************************************************************)
(* cli.py                                                                  *)
(***************************************************************************)
\* what console.print is given: a str, or a Panel, Markdown, Syntax or Table
\* of rich with the text it was made from
Text(s) == [rich |-> "str", text |-> s, columns |-> << >>, rows |-> << >>]
Panel(s) == [rich |-> "Panel", text |-> s, columns |-> << >>, rows |-> << >>]
Markdown(s) == [rich |-> "Markdown", text |-> s, columns |-> << >>, rows |-> << >>]
Syntax(s) == [rich |-> "Syntax", text |-> s, columns |-> << >>, rows |-> << >>]
Table(title, columns, rows) ==
  [rich |-> "Table", text |-> title, columns |-> columns, rows |-> rows]

\* how a function of cli.py ends: what it has printed, the file it has
\* written (a path and a content, or nothing) and its return or its exception
Done(out) == [out |-> out, written |-> << >>, end |-> Return(None)]
Crash(out, exception) == [out |-> out, written |-> << >>, end |-> exception]

\* statement a, then statement b unless a has raised
Then(a, b) ==
  IF a.end.kind = "raise" THEN a
  ELSE [out |-> a.out \o b.out, written |-> a.written \o b.written, end |-> b.end]

\* cli.py 54-55, 154-155: for i, line in enumerate(lines, 1): print "{i}. {line}"
Numbered(lines) ==
  [i \in 1..Len(lines) |-> Text(ToString(i) \o ". " \o lines[i])]

\* cli.py 101, 187: isinstance(cat_std, StandardCategory).  StandardCategory
\* is a typing.Literal (api.py 24), a subscripted generic, and isinstance
\* refuses those
IsInstanceStandardCategory(cat_std) ==
  Raise("TypeError",
        "Subscripted generics cannot be used with class and instance checks")

\* cli.py 29-38
list_categories ==
  Done(<< Table("Python Coding Standards Categories",
                << "Category", "Description" >>,
                get_all_categories.value) >>)

\* cli.py 63-78: the items of an example from the j-th on
RECURSIVE ShowItems(_, _)
ShowItems(example, j) ==
  IF j > Len(example) THEN Done(<< >>)
  ELSE LET key == example[j].key
           value == example[j].value
           item ==
             IF key = "title" THEN Done(<< >>)
             ELSE IF key \in { "code", "good_example", "bad_example" }
               THEN IF ~example[j].isstr
                      THEN Crash(<< >>, Raise("AttributeError",
                                  "'dict' object has no attribute 'strip'"))
                    ELSE IF Strip(value) # ""
                      THEN Done(<< Syntax(Strip(value)) >>)
                    ELSE Done(<< >>)
             ELSE IF key = "commands"
               THEN IF example[j].isstr
                      THEN Crash(<< >>, Raise("AttributeError",
                                  "'str' object has no attribute 'items'"))
                    ELSE Done(<< Table("", << "Task", "Command" >>,
                                       [n \in 1..Len(value) |->
                                          << value[n].key, value[n].value >>]) >>)
             ELSE Done(<< Text(key \o ": " \o Str(example[j])) >>)
       IN Then(item, ShowItems(example, j + 1))

\* cli.py 60-78: the examples from the i-th on
RECURSIVE ShowExamples(_, _)
ShowExamples(examples, i) ==
  IF i > Len(examples) THEN Done(<< >>)
  ELSE IF ~HasKey(examples[i], "title")
    THEN Crash(<< >>, Raise("KeyError", "'title'"))
  ELSE Then(Done(<< Text("\n[bold yellow]" \o Str(ItemOf(examples[i], "title"))
                         \o "[/bold yellow]") >>),
            Then(ShowItems(examples[i], 1), ShowExamples(examples, i + 1)))

\* cli.py 41-78
show_standard(category) ==
  LET standard == get_standard(category)
  IN IF standard.kind = "raise"
       THEN IF standard.exc = "ValueError"
              THEN Done(<< Text("[bold red]Error:[/bold red] " \o standard.msg) >>)
              ELSE Crash(<< >>, standard)
     ELSE Then(Done(<< Panel("[bold cyan]" \o standard.value.title \o "[/bold cyan]"),
                       Markdown(standard.value.description),
                       Text("\n[bold green]Guidelines:[/bold green]") >>
                    \o Numbered(standard.value.guidelines)),
               IF Len(standard.value.examples) = 0 THEN Done(<< >>)
               ELSE Then(Done(<< Text("\n[bold green]Examples:[/bold green]") >>),
                         ShowExamples(standard.value.examples, 1)))

\* cli.py 81-117.  Lines 102-117 are never executed: a result list that is
\* not empty has a first category, and line 101 raises for it
search(query) ==
  LET results == search_standards(query).value
  IN IF Len(results) = 0
       THEN Done(<< Text("[yellow]No results found for query:[/yellow] " \o query) >>)
     ELSE Crash(<< Text("[green]Found " \o ToString(Len(results))
                        \o " results for query:[/green] " \o query) >>,
                IsInstanceStandardCategory(results[1][1]))

\* cli.py 120-142
show_toolchain ==
  LET toolchain == get_project_toolchain.value
  IN Done(<< Panel("[bold cyan]Recommended Python Project Toolchain[/bold cyan]"),
             Table("", << "Tool", "Recommendation" >>,
                   << << "Linter", toolchain.linter >>,
                      << "Formatter", toolchain.formatter >>,
                      << "Type Checker", toolchain.type_checker >>,
                      << "Test Framework", toolchain.test_framework >>,
                      << "Build System", toolchain.build_system >> >>),
             Text("\n[bold green]Common Commands:[/bold green]") >>
          \o [n \in 1..Len(toolchain.commands) |->
                Text("[yellow]" \o toolchain.commands[n].key \o ":[/yellow] "
                     \o toolchain.commands[n].value)])

\* cli.py 145-175
for_ai ==
  LET data == for_ai_assistant
  IN Then(Done(<< Panel("[bold cyan]Python Coding Standards for AI Assistants[/bold cyan]") >>),
          IF data.kind = "raise" THEN Crash(<< >>, data)
          ELSE Done(<< Text("\n[bold green]General Guidelines:[/bold green]") >>
                    \o Numbered(data.value.general_guidelines)
                    \o << Text("\n[bold green]Project Structure:[/bold green]") >>
                    \o Numbered(data.value.project_structure)
                    \o << Text("\n[bold green]Technical Requirements:[/bold green]"),
                          Text("[yellow]Python version:[/yellow] "
                               \o data.value.python_version),
                          Text("[yellow]Typing:[/yellow] " \o data.value.typing),
                          Text("\n[bold green]Preferred Tools:[/bold green]") >>
                    \o [n \in 1..Len(data.value.preferred_tools) |->
                          Text("[yellow]" \o data.value.preferred_tools[n].key
                               \o ":[/yellow] " \o data.value.preferred_tools[n].value)]
                    \o << Text("\n[bold green]OOP Principles:[/bold green]") >>
                    \o Numbered(data.value.oop_principles)
                    \o << Text("\n[bold green]Modern Features:[/bold green]") >>
                    \o Numbered(data.value.modern_features)))

\* the paths open(path, "w") refuses: their directory does not exist
MissingDirectoryPaths == { "/nonexistent/standards.json" }

\* cli.py 191: open(output_path, "w")
OpenForWriting(output_path) ==
  IF output_path \in MissingDirectoryPaths
    THEN Raise("OSError",
               "[Errno 2] No such file or directory: " \o ReprStr(output_path))
    ELSE Return(None)

\* cli.py 180-183, 192: json.dump(data, f, indent=2) of the data before the
\* loop of line 185 has added a category to "standards"
EMPTY_DOCUMENT ==
  "{\n"
  \o "  \"categories\": {},\n"
  \o "  \"standards\": {}\n"
  \o "}"

\* cli.py 178-195.  The loop of lines 185-188 raises at line 187 for the
\* first pair of get_all_categories; it ends normally only when there is no
\* pair, and then data holds no category
export_json(output_path) ==
  IF Len(get_all_categories.value) > 0
    THEN Crash(<< >>, IsInstanceStandardCategory(get_all_categories.value[1][1]))
  ELSE IF OpenForWriting(output_path).kind = "raise"
    THEN Done(<< Text("[bold red]Error exporting standards:[/bold red] "
                      \o OpenForWriting(output_path).msg) >>)
  ELSE [out |-> << Text("[green]Standards exported to:[/green] " \o output_path) >>,
        written |-> << << output_path, EMPTY_DOCUMENT >> >>,
        end |-> Return(None)]

\* sys.exit(code), and the exit of argparse: 0 after the help text, 2 after a
\* usage error
Exit(code) == [kind |-> "exit", code |-> code]

\* cli.py 205-233: the subcommands, and those that take one positional argument
Commands == { "list", "show", "search", "toolchain", "ai", "export" }
CommandsWithArgument == { "show", "search", "export" }
HelpOptions == { "-h", "--help" }

\* cli.py 198-235: parser.parse_args() of a command line of at most two
\* words, none of which starts with "-" unless it is a help option
parse_args(argv) ==
  IF Len(argv) = 0
    THEN Return([command |-> None, argument |-> None])
  ELSE IF argv[1] \in HelpOptions
    THEN Exit(0)
  ELSE IF argv[1] \notin Commands
    THEN Exit(2)
  ELSE IF Len(argv) = 1
    THEN IF argv[1] \in CommandsWithArgument
           THEN Exit(2)
           ELSE Return([command |-> Some(argv[1]), argument |-> None])
  ELSE IF argv[2] \in HelpOptions
    THEN Exit(0)
  ELSE IF argv[1] \notin CommandsWithArgument
    THEN Exit(2)
  ELSE IF argv[1] = "show"
          /\ \A i \in 1..Len(get_all_categories.value) :
               get_all_categories.value[i][1] # argv[2]
    THEN Exit(2)
  ELSE Return([command |-> Some(argv[1]), argument |-> Some(argv[2])])

\* cli.py 242-255: the function main calls for the parsed command line
Dispatch(parsed) ==
  IF parsed.command = Some("list") THEN list_categories
  ELSE IF parsed.command = Some("show") THEN show_standard(parsed.argument[1])
  ELSE IF parsed.command = Some("search") THEN search(parsed.argument[1])
  ELSE IF parsed.command = Some("toolchain") THEN show_toolchain
  ELSE IF parsed.command = Some("ai") THEN for_ai
  ELSE IF parsed.command = Some("export") THEN export_json(parsed.argument[1])
  ELSE list_categories

\* cli.py 238-257: what the process has printed and written, and how it ends:
\* with the exit of argparse, with an exception nothing catches, or with
\* sys.exit(0)
main(argv) ==
  LET parsed == parse_args(argv)
  IN IF parsed.kind = "exit"
       THEN [out |-> << >>, written |-> << >>, end |-> parsed]
     ELSE IF Dispatch(parsed.value).end.kind = "raise"
       THEN Dispatch(parsed.value)
     ELSE [out |-> Dispatch(parsed.value).out,
           written |-> Dispatch(parsed.value).written,
           end |-> Exit(0)]

\* the exit status of the process: that of sys.exit, and 1 when the
\* interpreter ends with an uncaught exception
ExitStatus(end) == IF end.kind = "exit" THEN end.code ELSE 1

(***************************************************************************)
(* Inputs                                                                  *)
(***************************************************************************)
InvalidCategories ==
  { "invalid_category", "", "Testing", "testing ", "guidelines" }

Categories == StandardCategory \cup InvalidCategories

\* the titles of the examples of the store
ExampleTitles ==
  UNION { { Get(STANDARDS_MAP[i].value.examples[j], "title") :
              j \in 1..Len(STANDARDS_MAP[i].value.examples) } :
          i \in 1..Len(STANDARDS_MAP) }

OtherTitles == { "", "No such example", "factory pattern", "Factory Pattern " }

\* the optional example_title: None or a string
Titles == { None } \cup { Some(t) : t \in ExampleTitles \cup OtherTitles }

MaxQueryLen == 2

QueryAlphabet == { "p", "Y", " " }

RECURSIVE StringsOver(_, _)
StringsOver(alphabet, n) ==
  IF n = 0 THEN { "" }
  ELSE LET shorter == StringsOver(alphabet, n - 1)
       IN shorter \cup { s \o c : s \in shorter, c \in alphabet }

QueryWords ==
  { "python", "Python", "PYTHON", "best practice", "Best Practices",
    "hatch run dev", "class", "src-layout", "pyproject.toml", "title",
    "commands", "no such text", "\n" }

Queries == StringsOver(QueryAlphabet, MaxQueryLen) \cup QueryWords

MaxFragments == 2

\* lines a snippet is put together from
SnippetFragments ==
  { "def f(items=[]):\n",
    "def g(x) -> int:\n",
    "    results = []\n",
    "    except:\n",
    "    h = open(p)\n",
    "    with open(p) as h:\n" }

RECURSIVE Concatenations(_, _)
Concatenations(fragments, n) ==
  IF n = 0 THEN { "" }
  ELSE LET shorter == Concatenations(fragments, n - 1)
       IN shorter \cup { s \o f : s \in shorter, f \in fragments }

\* test_ai.py 38-47
TestSnippet ==
  "\n"
  \o "def process_data(items=[]):\n"
  \o "    results = []\n"
  \o "    for item in items:\n"
  \o "        try:\n"
  \o "            results.append(item * 2)\n"
  \o "        except:\n"
  \o "            pass\n"
  \o "    return results\n"

\* a mutable default argument, a bare except and no return annotation
CompactDefaultSnippet ==
  "def process_data(items=[]):\n"
  \o "    try:\n"
  \o "        return [item * 2 for item in items]\n"
  \o "    except:\n"
  \o "        return items\n"

\* a snippet for each of the six checks, in the order of the checks
AllPatternsSnippet ==
  "def load(path):\n"
  \o "    pick = lambda x: x if x else 0\n"
  \o "class Point:\n"
  \o "    def __init__(self, x, y, z):\n"
  \o "        self.x = x\n"
  \o "        self.y = y\n"
  \o "        self.z = z\n"
  \o "def collect(items = []):\n"
  \o "    handle = open(path)\n"
  \o "    try:\n"
  \o "        pass\n"
  \o "    except Exception:\n"
  \o "        pass\n"

\* the same patterns in the opposite order
ReversedPatternsSnippet ==
  "try:\n"
  \o "    pass\n"
  \o "except Exception:\n"
  \o "    pass\n"
  \o "handle = open(path)\n"
  \o "def collect(items = []):\n"
  \o "    pass\n"
  \o "class Point:\n"
  \o "    def __init__(self, x, y, z):\n"
  \o "        self.x = x\n"
  \o "        self.y = y\n"
  \o "        self.z = z\n"
  \o "pick = lambda x: x if x else 0\n"
  \o "def load(path):\n"
  \o "    pass\n"

\* two assignments to self only
TwoAttributesSnippet ==
  "class Pair:\n"
  \o "    def __init__(self, a, b) -> None:\n"
  \o "        self.a = a\n"
  \o "        self.b = b\n"

Snippets ==
  Concatenations(SnippetFragments, MaxFragments)
  \cup { TestSnippet, CompactDefaultSnippet, AllPatternsSnippet,
         ReversedPatternsSnippet, TwoAttributesSnippet }

\* the words user queries are put together from: keywords of six buckets, in
\* lower or mixed case, and a word that is no keyword
MaxKeywords == 2
QueryTerms ==
  { "layout", "Setup", "class", "Typing", "pytest", "Error", "advice" }

\* the queries of n words from QueryTerms, separated by blanks
RECURSIVE Phrases(_)
Phrases(n) ==
  IF n = 0 THEN { "" }
  ELSE IF n = 1 THEN QueryTerms
  ELSE { p \o " " \o t : p \in Phrases(n - 1), t \in QueryTerms }

\* every keyword on its own, and the queries of tests/test_ai.py 75-95 and
\* tests/test_integration.py 77-96
FixedQueries ==
  { StructureTerms[i] : i \in 1..Len(StructureTerms) }
  \cup { ToolsTerms[i] : i \in 1..Len(ToolsTerms) }
  \cup { OopTerms[i] : i \in 1..Len(OopTerms) }
  \cup { ModernTerms[i] : i \in 1..Len(ModernTerms) }
  \cup { TestingTerms[i] : i \in 1..Len(TestingTerms) }
  \cup { FunctionalTerms[i] : i \in 1..Len(FunctionalTerms) }
  \cup { ErrorTerms[i] : i \in 1..Len(ErrorTerms) }
  \cup { "project structure", "recommended tools", "OOP principles",
         "something random", "How should I structure my Python project?",
         "What tools should I use?", "Best practices for OOP in Python?",
         "modern Python features", "functional programming",
         "error handling", "give me some advice", "lambda Error",
         "STRUCTURE", "struct", "keep it simple" }

\* queries that hold the keyword "dataclass", alone and next to keywords of
\* the modern features bucket and of the buckets before the OOP bucket
DataclassQueries ==
  { "DataClass", "what is a dataclass?", "dataclass typing",
    "modern dataclass features", "dataclass layout", "setup a dataclass" }

ResponseQueries ==
  UNION { Phrases(n) : n \in 0..MaxKeywords } \cup FixedQueries
  \cup DataclassQueries

\* the output paths of export: one that can be written and one in a directory
\* that does not exist
Paths == { "standards.json" } \cup MissingDirectoryPaths

\* the queries of the search subcommand: texts with and without matches
CliQueries == { "", "best practice", "pytest", "no such text" }

\* the command lines
Argvs ==
  { << >>, << "-h" >>, << "bogus" >>, << "" >>, << "list", "extra" >>,
    << "show", "--help" >> }
  \cup { << command >> : command \in Commands }
  \cup { << "show", category >> : category \in Categories }
  \cup { << "search", query >> : query \in CliQueries }
  \cup { << "export", output >> : output \in Paths }

(***************************************************************************)
(* The state machine: one action per API call, one for a command run      *)
(***************************************************************************)
Init ==
  /\ standards = STANDARDS_MAP
  /\ op = "none"
  /\ args = << >>
  /\ result = [kind |-> "none"]
  /\ console = << >>
  /\ files = [path \in Paths |-> None]

\* no call is in progress: the caller has dropped the last result
Ready == op = "none"

GetStandard ==
  \E category \in Categories :
    /\ Ready
    /\ op' = "get_standard"
    /\ args' = << category >>
    /\ result' = get_standard(category)
    /\ UNCHANGED << standards, console, files >>

SearchStandards ==
  \E query \in Queries :
    /\ Ready
    /\ op' = "search_standards"
    /\ args' = << query >>
    /\ result' = search_standards(query)
    /\ UNCHANGED << standards, console, files >>

GetExample ==
  \E category \in Categories, example_title \in Titles :
    /\ Ready
    /\ op' = "get_example"
    /\ args' = << category, example_title >>
    /\ result' = get_example(category, example_title)
    /\ UNCHANGED << standards, console, files >>

SuggestImprovements ==
  \E code_snippet \in Snippets :
    /\ Ready
    /\ op' = "suggest_improvements"
    /\ args' = << code_snippet >>
    /\ result' = suggest_improvements(code_snippet)
    /\ UNCHANGED << standards, console, files >>

GenerateStandardResponse ==
  \E query \in ResponseQueries :
    /\ Ready
    /\ op' = "generate_standard_response"
    /\ args' = << query >>
    /\ result' = generate_standard_response(query)
    /\ UNCHANGED << standards, console, files >>

GetAllCategories ==
  /\ Ready
  /\ op' = "get_all_categories"
  /\ args' = << >>
  /\ result' = get_all_categories
  /\ UNCHANGED << standards, console, files >>

\* one run of the pystandards command
Main ==
  \E argv \in Argvs :
    /\ Ready
    /\ op' = "main"
    /\ args' = << argv >>
    /\ result' = main(argv).end
    /\ console' = main(argv).out
    /\ files' = [path \in DOMAIN files |->
                   IF \E n \in 1..Len(main(argv).written) :
                        main(argv).written[n][1] = path
                     THEN Some(main(argv).written[1][2])
                     ELSE files[path]]
    /\ UNCHANGED standards

GetProjectToolchain ==
  /\ Ready
  /\ op' = "get_project_toolchain"
  /\ args' = << >>
  /\ result' = get_project_toolchain
  /\ UNCHANGED << standards, console, files >>

\* for_ai_assistant that takes the last guideline off the list it hands out:
\* the list is the one the store holds (api.py 156), so the store loses it
ForAiAssistant_pops_guideline ==
  /\ Ready
  /\ op' = "for_ai_assistant"
  /\ args' = << >>
  /\ result' = for_ai_assistant
  /\ standards' =
       [n \in 1..Len(standards) |->
          IF standards[n].key = "ai_guidelines"
            THEN [key |-> standards[n].key,
                  value |-> [standards[n].value EXCEPT
                               !.guidelines = SubSeq(@, 1, Len(@) - 1)]]
            ELSE standards[n]]
  /\ UNCHANGED << console, files >>

ForAiAssistant ==
  /\ Ready
  /\ op' = "for_ai_assistant"
  /\ args' = << >>
  /\ result' = for_ai_assistant
  /\ UNCHANGED << standards, console, files >>

\* the caller is done with the result of the last call; the next command
\* starts with an empty console
Discard ==
  /\ ~Ready
  /\ op' = "none"
  /\ args' = << >>
  /\ result' = [kind |-> "none"]
  /\ console' = << >>
  /\ UNCHANGED << standards, files >>

Next ==
  \/ GetStandard
  \/ SearchStandards
  \/ GetExample
  \/ SuggestImprovements
  \/ GenerateStandardResponse
  \/ GetAllCategories
  \/ Main
  \/ GetProjectToolchain
  \/ ForAiAssistant
  \/ Discard

Spec == Init /\ [][Next]_vars

(***************************************************************************)
(* Properties                                                              *)
(***************************************************************************)
\* the category record of a valid key, read from the store
Category(c) == Get(standards, c)

\* the texts the store holds in a field of a category: the field is "title",
\* "description", "guideline" or "example.<key>"
FieldTexts(c, field) ==
  LET data == Category(c)
  IN IF field = "title" THEN { data.title }
     ELSE IF field = "description" THEN { data.description }
     ELSE IF field = "guideline"
       THEN { data.guidelines[g] : g \in 1..Len(data.guidelines) }
     ELSE UNION { { data.examples[j][k].value :
                      k \in { k \in 1..Len(data.examples[j]) :
                                /\ data.examples[j][k].isstr
                                /\ field = "example." \o data.examples[j][k].key } } :
                  j \in 1..Len(data.examples) }

\* C1: a call of get_standard or of get_example (with or without a title)
\* whose category is outside the fixed set of 12 keys ends in ValueError and
\* returns nothing.
C1_UnknownCategoryRaises ==
  /\ Cardinality(StandardCategory) = 12
  /\ (op \in { "get_standard", "get_example" } /\ args[1] \notin StandardCategory)
       => /\ result.kind = "raise"
          /\ result.exc = "ValueError"
          /\ "value" \notin DOMAIN result

C1_Witness ==
  /\ op = "get_example"
  /\ args = << "invalid_category", Some("Factory Pattern") >>
  /\ result.kind = "raise"
  /\ result.exc = "ValueError"

\* C2: for each of the 12 valid keys get_standard returns a record with the
\* keys title, description, guidelines and examples whose title, description
\* and guideline list are not empty.
C2_ValidCategoryRecord ==
  (op = "get_standard" /\ args[1] \in StandardCategory)
    => /\ result.kind = "return"
       /\ DOMAIN result.value = { "title", "description", "guidelines", "examples" }
       /\ result.value.title # ""
       /\ result.value.description # ""
       /\ Len(result.value.guidelines) > 0

C2_Witness ==
  /\ op = "get_standard"
  /\ args = << "project_types" >>
  /\ result.kind = "return"
  /\ Len(result.value.guidelines) = 4

\* C3: every triple (category, field, text) search_standards returns has a
\* text that contains the query when both are lower-cased, and the text is
\* the content of that field of that category.
C3_ResultsContainQuery ==
  op = "search_standards"
    => /\ result.kind = "return"
       /\ \A i \in 1..Len(result.value) :
            LET r == result.value[i]
            IN /\ Contains(Lower(args[1]), Lower(r[3]))
               /\ r[1] \in StandardCategory
               /\ r[3] \in FieldTexts(r[1], r[2])

C3_Witness ==
  /\ op = "search_standards"
  /\ args = << "PYTHON" >>
  /\ \E i \in 1..Len(result.value) :
       result.value[i] = << "oop_principles", "description",
                            "Best practices for OOP in Python" >>

\* The places of a category record that hold a text, as <<rank, j, k>>: the
\* title <<1, 0, 0>>, the description <<2, 0, 0>>, the j-th guideline
\* <<3, j, 0>> and the k-th item of the j-th example <<4, j, k>> when its
\* value is a string.
TextPlaces(data) ==
  { << 1, 0, 0 >>, << 2, 0, 0 >> }
  \cup { << 3, g, 0 >> : g \in 1..Len(data.guidelines) }
  \cup UNION { { << 4, j, k >> :
                   k \in { k \in 1..Len(data.examples[j]) : data.examples[j][k].isstr } } :
               j \in 1..Len(data.examples) }

TextAt(data, p) ==
  IF p[1] = 1 THEN data.title
  ELSE IF p[1] = 2 THEN data.description
  ELSE IF p[1] = 3 THEN data.guidelines[p[2]]
  ELSE data.examples[p[2]][p[3]].value

FieldAt(data, p) ==
  IF p[1] = 1 THEN "title"
  ELSE IF p[1] = 2 THEN "description"
  ELSE IF p[1] = 3 THEN "guideline"
  ELSE "example." \o data.examples[p[2]][p[3]].key

\* the result triple of the place p of the n-th category of the store
TripleAt(n, p) ==
  << standards[n].key, FieldAt(standards[n].value, p), TextAt(standards[n].value, p) >>

\* the places of the n-th category whose lower-cased text contains q
MatchingPlaces(n, q) ==
  { p \in TextPlaces(standards[n].value) :
      Contains(q, Lower(TextAt(standards[n].value, p))) }

\* title before description before guidelines before examples, lists in
\* their order, the items of an example in their order
PlaceBefore(p, q) ==
  \/ p[1] < q[1]
  \/ p[1] = q[1] /\ p[2] < q[2]
  \/ p[1] = q[1] /\ p[2] = q[2] /\ p[3] < q[3]

\* how often x occurs in the sequence s
Occurrences(s, x) == Cardinality({ i \in 1..Len(s) : s[i] = x })

\* the number of places of text t where q starts
Starts(q, t) ==
  Cardinality({ n \in 1..(Len(t) - Len(q) + 1) : SubSeq(t, n, n + Len(q) - 1) = q })

\* C4: search_standards is complete and does not deduplicate: every title,
\* description, guideline and example text whose lower-cased text contains
\* the lower-cased query yields exactly one result (a triple occurs as often
\* as there are matching places that hold it), and nothing else is returned.
C4_OneResultPerMatchingField ==
  op = "search_standards"
    => LET q == Lower(args[1])
           res == result.value
       IN /\ \A n \in 1..Len(standards) :
               \A p \in MatchingPlaces(n, q) :
                 Occurrences(res, TripleAt(n, p))
                   = Cardinality({ p2 \in MatchingPlaces(n, q) :
                                     TripleAt(n, p2) = TripleAt(n, p) })
          /\ \A i \in 1..Len(res) :
               \E n \in 1..Len(standards) :
                 \E p \in MatchingPlaces(n, q) : res[i] = TripleAt(n, p)

\* a field that holds the query several times is returned once, beside
\* another field of its category and a field of another category
C4_Witness ==
  /\ op = "search_standards"
  /\ args[1] # ""
  /\ \E i \in 1..Len(result.value) :
       /\ Starts(Lower(args[1]), Lower(result.value[i][3])) > 1
       /\ Occurrences(result.value, result.value[i]) = 1
       /\ \E j \in 1..Len(result.value) :
            /\ result.value[j][1] = result.value[i][1]
            /\ result.value[j][2] # result.value[i][2]
       /\ \E j \in 1..Len(result.value) : result.value[j][1] # result.value[i][1]

\* the results of the n-th category, in the order of the result list
ResultsOf(res, n) == SelectSeq(res, LAMBDA r : r[1] = standards[n].key)

\* the place of a category key in the declaration order of the map
DeclarationIndex(c) == CHOOSE n \in 1..Len(standards) : standards[n].key = c

\* C5: the results are ordered by category declaration order; within a
\* category the title match comes first, then the description match, then
\* the guideline matches in guideline order, then the example matches in
\* example order and, within an example, in the order of its items.
C5_ResultOrder ==
  op = "search_standards"
    => LET q == Lower(args[1])
           res == result.value
       IN /\ \A i, j \in 1..Len(res) :
               i < j => DeclarationIndex(res[i][1]) <= DeclarationIndex(res[j][1])
          /\ \A n \in 1..Len(standards) :
               LET places == MatchingPlaces(n, q)
                   rs == ResultsOf(res, n)
               IN \A m \in 1..Len(rs) :
                    \E p \in places :
                      /\ Cardinality({ p2 \in places : PlaceBefore(p2, p) }) = m - 1
                      /\ rs[m] = TripleAt(n, p)

\* one category answers with its title, its description, a guideline and
\* two items of one example, in this order, after the results of an earlier
\* category
C5_Witness ==
  /\ op = "search_standards"
  /\ LET res == result.value
         SameCategory(i, j) == res[i][1] = res[j][1]
         After(i, field) ==
           { j \in (i + 1)..Len(res) : SameCategory(i, j) /\ res[j][2] = field }
     IN \E a \in 2..Len(res) :
          /\ res[a][2] = "title"
          /\ ~SameCategory(1, a)
          /\ \E b \in After(a, "description") :
               \E c \in After(b, "guideline") :
                 \E d \in After(c, "example.title") :
                   After(d, "example.bad_example") # {}

\* the number of texts of the categories from the n-th on that are not empty
RECURSIVE NonEmptyTexts(_)
NonEmptyTexts(n) ==
  IF n > Len(standards) THEN 0
  ELSE Cardinality({ p \in TextPlaces(standards[n].value) :
                       TextAt(standards[n].value, p) # "" })
       + NonEmptyTexts(n + 1)

\* C6: search_standards with the empty query returns one result for every
\* non-empty text of the store: every category title, every description,
\* every guideline and every example text field.
C6_EmptyQueryReturnsEveryText ==
  (op = "search_standards" /\ args[1] = "")
    => /\ \A n \in 1..Len(standards) :
            \A p \in TextPlaces(standards[n].value) :
              TextAt(standards[n].value, p) # ""
                => Occurrences(result.value, TripleAt(n, p)) = 1
       /\ Len(result.value) = NonEmptyTexts(1)

C6_Witness ==
  /\ op = "search_standards"
  /\ args = << "" >>
  /\ Len(result.value) = 131
  /\ result.value[131] = << "project_types", "guideline",
                            "Libraries: Design clear public APIs with comprehensive docs" >>

\* the examples of category c that carry the title t
ExamplesTitled(c, t) ==
  { j \in 1..Len(Category(c).examples) : Get(Category(c).examples[j], "title") = t }

\* the example get_example is to select: the first of the category without
\* a title, the first with the given title otherwise; 0 when there is none
SelectedExample(c, title) ==
  IF Len(Category(c).examples) = 0 THEN 0
  ELSE IF title = None THEN 1
  ELSE IF ExamplesTitled(c, title[1]) = {} THEN 0
  ELSE CHOOSE j \in ExamplesTitled(c, title[1]) :
         \A j2 \in ExamplesTitled(c, title[1]) : j <= j2

\* C7: get_example returns the primary text of the selected example: the
\* stripped "code" field when present, else the stripped "good_example"
\* field, else the stringified example record.
C7_PrimaryTextOfSelectedExample ==
  ( /\ op = "get_example"
    /\ args[1] \in StandardCategory
    /\ SelectedExample(args[1], args[2]) > 0 )
    => LET example == Category(args[1]).examples[SelectedExample(args[1], args[2])]
       IN /\ result.kind = "return"
          /\ HasKey(example, "code")
               => result.value = Strip(Get(example, "code"))
          /\ (~HasKey(example, "code") /\ HasKey(example, "good_example"))
               => result.value = Strip(Get(example, "good_example"))
          /\ (~HasKey(example, "code") /\ ~HasKey(example, "good_example"))
               => result.value = ReprDict(example)

\* the third example of its category, which has no "code" and lists
\* "good_example" before "bad_example"
C7_Witness ==
  /\ op = "get_example"
  /\ args = << "functional_programming", Some("Lambda Functions") >>
  /\ result = Return("# Good: Simple operations\nsquare = lambda x: x**2")

\* C8, as claimed: get_example with a valid category and a title that no
\* example of the category carries ends in ValueError and returns no text.
C8_UnknownTitleRaises ==
  ( /\ op = "get_example"
    /\ args[1] \in StandardCategory
    /\ args[2] # None
    /\ ExamplesTitled(args[1], args[2][1]) = {} )
    => /\ result.kind = "raise"
       /\ result.exc = "ValueError"

\* the categories of the store that have no example
NoExamples == { "environment", "ai_guidelines", "project_types" }

\* C9: get_example on a category without examples (environment,
\* ai_guidelines, project_types) ends in ValueError with or without a title,
\* and it is the check for the empty example list that raises, not the scan
\* for the title.
C9_NoExamplesRaisesFirst ==
  /\ \A n \in 1..Len(standards) :
       Len(standards[n].value.examples) = 0 <=> standards[n].key \in NoExamples
  /\ (op = "get_example" /\ args[1] \in NoExamples)
       => result = Raise("ValueError",
                         "No examples available for category: " \o args[1])

C9_Witness ==
  /\ op = "get_example"
  /\ args = << "environment", Some("Factory Pattern") >>
  /\ result.kind = "raise"
  /\ result.msg = "No examples available for category: environment"

\* C10: for every category with at least one example get_example without a
\* title returns a non-empty string, and for design_patterns that string
\* contains "class" or "def".
C10_FirstExampleNonEmpty ==
  ( /\ op = "get_example"
    /\ args[1] \in StandardCategory
    /\ args[2] = None
    /\ Len(Category(args[1]).examples) > 0 )
    => /\ result.kind = "return"
       /\ result.value # ""
       /\ args[1] = "design_patterns"
            => Contains("class", result.value) \/ Contains("def", result.value)

C10_Witness ==
  /\ op = "get_example"
  /\ args = << "design_patterns", None >>
  /\ result.kind = "return"
  /\ Len(result.value) > 0
  /\ Contains("class PaymentMethodFactory:", result.value)

\* the lines of a snippet
SnippetLines(s) == { SplitLines(s)[n] : n \in 1..Len(SplitLines(s)) }

\* a parameter list with a list or dict literal as default value
HasMutableDefault(s) ==
  \E line \in SnippetLines(s) :
    /\ Contains("def ", line)
    /\ \E default \in { "=[]", "= []", "={}", "= {}" } : Contains(default, line)

HasBareExcept(s) == \E line \in SnippetLines(s) : Strip(line) = "except:"

LacksReturnAnnotation(s) ==
  \E line \in SnippetLines(s) : Contains("def ", line) /\ ~Contains("->", line)

\* C11, as claimed: for a snippet with a mutable default argument, a bare
\* except clause and a function without return annotation,
\* suggest_improvements returns at least three distinct suggestions, among
\* them one about type hints, one about mutable defaults and one about
\* specific exceptions.
C11_ThreeSuggestions ==
  ( /\ op = "suggest_improvements"
    /\ HasMutableDefault(args[1])
    /\ HasBareExcept(args[1])
    /\ LacksReturnAnnotation(args[1]) )
    => LET given == { result.value[i] : i \in 1..Len(result.value) }
       IN /\ Cardinality(given) >= 3
          /\ \E s \in given : Contains("type hints", Lower(s))
          /\ \E s \in given : Contains("mutable default", Lower(s))
          /\ \E s \in given : Contains("specific exceptions", Lower(s))

\* the suggestions of the six checks, in the order of the checks
HeuristicOrder ==
  << "Add type hints to function return values and parameters",
     "Replace complex lambda functions with named functions for better readability",
     "Consider using @dataclass to simplify this class definition",
     "Avoid using mutable default arguments (lists, dicts, etc.)",
     "Use context managers (with statement) for file operations",
     "Use specific exceptions instead of catching all exceptions" >>

HeuristicRank(s) == CHOOSE n \in 1..Len(HeuristicOrder) : HeuristicOrder[n] = s

IsHeuristic(s) == \E n \in 1..Len(HeuristicOrder) : HeuristicOrder[n] = s

\* C12: the suggestions of the checks appear in the fixed order type hints,
\* complex lambda, dataclass candidate, mutable default, context manager,
\* generic exception, whatever the order of the patterns in the snippet, and
\* each check contributes at most one suggestion.
C12_FixedSuggestionOrder ==
  op = "suggest_improvements"
    => \A i, j \in 1..Len(result.value) :
         (i < j /\ IsHeuristic(result.value[i]) /\ IsHeuristic(result.value[j]))
           => HeuristicRank(result.value[i]) < HeuristicRank(result.value[j])

\* all six checks fire on a snippet that holds their patterns in the
\* opposite order
C12_Witness ==
  /\ op = "suggest_improvements"
  /\ args = << ReversedPatternsSnippet >>
  /\ SubSeq(result.value, 1, 6) = HeuristicOrder

\* the buckets of generate_standard_response in their priority order: the
\* keywords of a bucket and the text its template begins with
Buckets ==
  << [terms |-> StructureTerms, head |-> STRUCTURE_HEAD],
     [terms |-> ToolsTerms, head |-> TOOLS_TEXT],
     [terms |-> OopTerms, head |-> OOP_PLAIN_TEXT],
     [terms |-> ModernTerms, head |-> MODERN_PLAIN_TEXT],
     [terms |-> TestingTerms, head |-> TESTING_RESPONSE_TEXT],
     [terms |-> FunctionalTerms, head |-> FUNCTIONAL_PLAIN_TEXT],
     [terms |-> ErrorTerms, head |-> ERRORS_TEXT] >>

\* the text t begins with the text p
HasPrefix(p, t) == Len(p) <= Len(t) /\ SubSeq(t, 1, Len(p)) = p

\* the buckets that have a keyword occurring in the lower-cased query
MatchingBuckets(query) ==
  { b \in 1..Len(Buckets) :
      \E k \in 1..Len(Buckets[b].terms) :
        Starts(Buckets[b].terms[k], Lower(query)) > 0 }

\* the markdown heading a response opens with: its first line that is not empty
FirstHeading(text) == SplitLines(text)[2]

\* C13: generate_standard_response answers with the template of the first
\* bucket, in the order structure, tools, OOP, modern features, testing,
\* functional, error handling, that has a keyword occurring in the lower-cased
\* query, and with the "Python Coding Standards - Quick Reference" template
\* exactly when no keyword of any bucket occurs in it
C13_FirstMatchingBucket ==
  op = "generate_standard_response" =>
    /\ result.kind = "return"
    /\ (result.value = QUICK_REFERENCE_TEXT) <=> (MatchingBuckets(args[1]) = {})
    /\ (FirstHeading(result.value) = "## Python Coding Standards - Quick Reference")
         <=> (MatchingBuckets(args[1]) = {})
    /\ \A b \in MatchingBuckets(args[1]) :
         (\A a \in MatchingBuckets(args[1]) : b <= a) =>
           /\ HasPrefix(Buckets[b].head, result.value)
           /\ \A c \in 1..Len(Buckets) :
                FirstHeading(Buckets[c].head) = FirstHeading(result.value) => c = b

\* a query with a keyword of the OOP bucket and one of the modern features
\* bucket, in mixed case, is answered with the OOP template
C13_Witness ==
  /\ op = "generate_standard_response"
  /\ args = << "Typing class" >>
  /\ MatchingBuckets(args[1]) = { 3, 4 }
  /\ result.kind = "return"
  /\ FirstHeading(result.value) = "## OOP Best Practices"

\* the markdown heading lines of a text: one to six # and a blank, then the
\* heading
HeadingMarks == { "# ", "## ", "### ", "#### ", "##### ", "###### " }
IsHeading(line, heading) == \E marks \in HeadingMarks : line = marks \o heading
HasHeading(text, heading) ==
  \E n \in 1..Len(SplitLines(text)) : IsHeading(SplitLines(text)[n], heading)

\* C14 as stated: the output of generate_standard_response("project
\* structure") has a heading that is literally "Project Structure" and holds
\* the phrase "src-layout"
C14_HeadingIsProjectStructure ==
  (op = "generate_standard_response" /\ args = << "project structure" >>) =>
    /\ result.kind = "return"
    /\ HasHeading(result.value, "Project Structure")
    /\ Starts("src-layout", result.value) > 0

\* C14: the output of generate_standard_response("project structure") has the
\* heading "Recommended Project Structure", a heading that contains "Project
\* Structure" in this case of the letters, no heading that is "Project
\* Structure" alone, and the phrase "src-layout"
C14_HeadingContainsProjectStructure ==
  (op = "generate_standard_response" /\ args = << "project structure" >>) =>
    /\ result.kind = "return"
    /\ HasHeading(result.value, "Recommended Project Structure")
    /\ Starts("Project Structure", "Recommended Project Structure") = 1
    /\ ~HasHeading(result.value, "Project Structure")
    /\ Starts("src-layout", result.value) > 0

\* generate_standard_response("project structure") has returned its text
C14_Witness ==
  /\ op = "generate_standard_response"
  /\ args = << "project structure" >>
  /\ result.kind = "return"
  /\ SplitLines(result.value)[2] = "## Recommended Project Structure"
  /\ Starts("src-layout", result.value) = 1

\* the ways get_example ends with a ValueError when it is asked for an example
\* of one of the three categories the buckets read
ExampleValueErrors ==
  { e \in { get_example(category, Some(title)) :
              category \in { "oop_principles", "modern_features",
                             "functional_programming" },
              title \in OtherTitles } :
      e.kind = "raise" /\ e.exc = "ValueError" }

\* C15: for every query generate_standard_response returns without raising,
\* and what it returns is a non-empty string that holds the markdown heading
\* marker "##"; a ValueError of get_example inside a bucket is absorbed, the
\* bucket then answers with its template without the example
C15_AlwaysAResponse ==
  /\ op = "generate_standard_response" =>
       /\ result.kind = "return"
       /\ result.value # ""
       /\ Starts("##", result.value) > 0
  /\ \A e \in ExampleValueErrors :
       /\ OopResponse(e) = Return(OOP_PLAIN_TEXT)
       /\ ModernResponse(e) = Return(MODERN_PLAIN_TEXT)
       /\ FunctionalResponse(e) = Return(FUNCTIONAL_PLAIN_TEXT)
  /\ \A plain \in { OOP_PLAIN_TEXT, MODERN_PLAIN_TEXT, FUNCTIONAL_PLAIN_TEXT } :
       /\ Starts("##", plain) = 1
       /\ Starts("^^^", plain) = 0

\* a query of the OOP bucket has been answered with the heading and the
\* example between code fences
C15_Witness ==
  /\ op = "generate_standard_response"
  /\ args = << "OOP principles" >>
  /\ result.kind = "return"
  /\ HasPrefix(OOP_HEAD, result.value)
  /\ Starts("##", result.value) = 1
  /\ Cardinality(ExampleValueErrors) = 9

\* C16: get_all_categories returns exactly one (id, title) pair per category
\* of the fixed set, in declaration order, no id twice, and the title of
\* every pair is the title of the record get_standard returns for the id
C16_OnePairPerCategory ==
  op = "get_all_categories" =>
    /\ result.kind = "return"
    /\ Len(result.value) = Len(CategoryDeclaration)
    /\ { result.value[i][1] : i \in 1..Len(result.value) } = StandardCategory
    /\ \A i \in 1..Len(result.value) :
         /\ Len(result.value[i]) = 2
         /\ result.value[i][1] = CategoryDeclaration[i]
         /\ get_standard(result.value[i][1]).kind = "return"
         /\ result.value[i][2] = get_standard(result.value[i][1]).value.title
    /\ \A i, j \in 1..Len(result.value) :
         result.value[i][1] = result.value[j][1] => i = j

\* get_all_categories has returned the twelve pairs, from "project_structure"
\* to "project_types"
C16_Witness ==
  /\ op = "get_all_categories"
  /\ result.kind = "return"
  /\ Len(result.value) = 12
  /\ result.value[1] = << "project_structure", "Project Structure" >>
  /\ result.value[12][1] = "project_types"

\* the export subcommand has run with the given output path
Exported(output_path) == op = "main" /\ args = << << "export", output_path >> >>

\* the member "key": "value" as json.dump writes it; the keys and titles of
\* the store hold no character that JSON escapes
JsonMember(key, value) == "\"" \o key \o "\": \"" \o value \o "\""

\* C17: the export subcommand writes a document whose "standards" mapping has
\* an entry for every category id, the record get_standard returns for the
\* id, and whose "categories" mapping has every id mapped to its title.
\* Stated for the parts of the document a text search finds: the file
\* exists, every id is a key with its title as value and a key with an object
\* as value, and the object holds the title of the record of get_standard
C17_ExportWritesEveryCategory ==
  \A output_path \in Paths \ MissingDirectoryPaths :
    Exported(output_path) =>
      /\ files[output_path] # None
      /\ \A i \in 1..Len(CategoryDeclaration) :
           LET id == CategoryDeclaration[i]
               document == files[output_path][1]
           IN /\ Starts(JsonMember(id, get_standard(id).value.title), document) = 1
              /\ Starts("\"" \o id \o "\": {", document) = 1
              /\ Starts(JsonMember("title", get_standard(id).value.title),
                        document) >= 1

\* the member written on a line of the "categories" object: the key between
\* the first two quotes, the value between the quotes after the colon
ReadMember(line) ==
  LET member == IF SubSeq(line, Len(line), Len(line)) = ","
                  THEN SubSeq(line, 1, Len(line) - 1) ELSE line
      colon == CHOOSE n \in 1..Len(member) :
                 /\ SubSeq(member, n, n + 3) = "\": \""
                 /\ \A m \in 1..(n - 1) : SubSeq(member, m, m + 3) # "\": \""
  IN << SubSeq(member, 6, colon - 1), SubSeq(member, colon + 4, Len(member) - 1) >>

\* json.load of a document written with indent=2, reduced to its
\* "categories" object: the pairs of key and value in the order of the text
ReadCategories(document) ==
  LET lines == SplitLines(document)
      Opens == { n \in 1..Len(lines) : lines[n] = "  \"categories\": {" }
  IN IF Opens = {} THEN << >>
     ELSE LET open == CHOOSE n \in Opens : TRUE
              close == CHOOSE n \in (open + 1)..Len(lines) :
                         /\ lines[n] \in { "  },", "  }" }
                         /\ \A m \in (open + 1)..(n - 1) : lines[m] \notin { "  },", "  }" }
          IN [i \in 1..(close - open - 1) |-> ReadMember(lines[open + i])]

\* C18: exporting to JSON and reading the written document again gives the
\* category to title mapping that get_all_categories returns
C18_ExportRoundTrip ==
  \A output_path \in Paths \ MissingDirectoryPaths :
    Exported(output_path) =>
      /\ files[output_path] # None
      /\ ReadCategories(files[output_path][1]) = get_all_categories.value

\* C19: when the file write of export fails, export_json catches the failure,
\* reports it on the console and returns normally, so that main goes on to
\* its sys.exit(0)
C19_WriteFailureReported ==
  \A output_path \in MissingDirectoryPaths :
    Exported(output_path) =>
      /\ result = Exit(0)
      /\ \E n \in 1..Len(console) :
           /\ console[n].rich = "str"
           /\ HasPrefix("[bold red]Error exporting standards:[/bold red] ",
                        console[n].text)
      /\ files[output_path] = None

\* C20: the command ends with exit code 0 on every path: for every
\* subcommand, without subcommand, when show meets an unknown category and
\* when export fails to write
C20_ExitCodeZero ==
  op = "main" => ExitStatus(result) = 0

\* the call has ended with a ValueError whose message holds the given name
ValueErrorNaming(name) ==
  /\ result.kind = "raise"
  /\ result.exc = "ValueError"
  /\ Starts(name, result.msg) > 0

\* C21: every NotFound condition reaches the caller as a ValueError with a
\* message that names the unknown category, the category without examples or
\* the missing example title; show_standard catches it, prints it and
\* returns; and no command of the CLI ends with an uncaught exception
C21_NotFoundIsValueError ==
  /\ (op \in { "get_standard", "get_example" } /\ args[1] \notin StandardCategory)
       => ValueErrorNaming(args[1])
  /\ (op = "get_example" /\ args[1] \in NoExamples)
       => ValueErrorNaming(args[1])
  /\ ( /\ op = "get_example"
       /\ args[1] \in StandardCategory \ NoExamples
       /\ args[2] # None
       /\ ExamplesTitled(args[1], args[2][1]) = {} )
       => ValueErrorNaming(args[2][1])
  /\ \A category \in InvalidCategories :
       show_standard(category)
         = Done(<< Text("[bold red]Error:[/bold red] Unknown standard category: "
                        \o category) >>)
  /\ op = "main" => result.kind # "raise"

\* what the call of the current state returns when it is made once more
CalledAgain ==
  CASE op = "get_all_categories" -> get_all_categories
    [] op = "get_standard" -> get_standard(args[1])
    [] op = "search_standards" -> search_standards(args[1])
    [] op = "get_project_toolchain" -> get_project_toolchain
    [] op = "for_ai_assistant" -> for_ai_assistant
    [] op = "get_example" -> get_example(args[1], args[2])
    [] op = "suggest_improvements" -> suggest_improvements(args[1])
    [] op = "generate_standard_response" -> generate_standard_response(args[1])
    [] op = "main" -> main(args[1]).end
    [] OTHER -> result

\* C22: the content store is unchanged by every operation of the API, of the
\* AI module and of the CLI: after any sequence of calls every category has
\* the title, description, guidelines and examples it had at the start, so a
\* call repeated with the same argument returns the same result
C22_StoreUnchanged ==
  /\ Len(standards) = Len(STANDARDS_MAP)
  /\ \A n \in 1..Len(STANDARDS_MAP) :
       /\ standards[n].key = STANDARDS_MAP[n].key
       /\ standards[n].value.title = STANDARDS_MAP[n].value.title
       /\ standards[n].value.description = STANDARDS_MAP[n].value.description
       /\ standards[n].value.guidelines = STANDARDS_MAP[n].value.guidelines
       /\ standards[n].value.examples = STANDARDS_MAP[n].value.examples
  /\ result = CalledAgain
  /\ op = "main" => console = main(args[1]).out

\* a command of the CLI has run over the store and printed a category
C22_Witness ==
  /\ op = "main"
  /\ args = << << "show", "development_tools" >> >>
  /\ result = Exit(0)
  /\ Len(console) > 3
  /\ standards = STANDARDS_MAP

\* the entries of the aggregate that come from ai_guidelines and
\* project_structure and those that are written out in the code
GuidelinesAndConstants(data) ==
  /\ data.general_guidelines = Category("ai_guidelines").guidelines
  /\ data.project_structure = Category("project_structure").guidelines
  /\ data.python_version = "3.11+"
  /\ data.typing = "Always use type hints, including PEP 695 generics"
  /\ data.preferred_tools = << StrItem("linter", "ruff"),
                               StrItem("type_checker", "mypy --strict"),
                               StrItem("package_manager", "hatch") >>

\* the titles of the examples of category c, in the order of the examples
TitlesOf(c) ==
  [j \in 1..Len(Category(c).examples) |-> Get(Category(c).examples[j], "title")]

\* C23 as stated: the aggregate of for_ai_assistant is assembled from two
\* categories and constants, so it has the two guideline lists and the three
\* constants and nothing from another category
C23_TwoCategoriesAndConstants ==
  op = "for_ai_assistant" =>
    /\ result.kind = "return"
    /\ GuidelinesAndConstants(result.value)
    /\ DOMAIN result.value = { "general_guidelines", "project_structure",
                               "python_version", "typing", "preferred_tools" }

\* C23: the aggregate of for_ai_assistant is assembled from four categories
\* and constants: general_guidelines is the guideline list of ai_guidelines,
\* project_structure that of project_structure, oop_principles and
\* modern_features are the example titles of the categories of these names,
\* all in order, and python_version, typing and preferred_tools are constants
C23_FourCategoriesAndConstants ==
  op = "for_ai_assistant" =>
    /\ result.kind = "return"
    /\ GuidelinesAndConstants(result.value)
    /\ DOMAIN result.value = { "general_guidelines", "project_structure",
                               "python_version", "typing", "preferred_tools",
                               "oop_principles", "modern_features" }
    /\ result.value.oop_principles = TitlesOf("oop_principles")
    /\ result.value.modern_features = TitlesOf("modern_features")

\* for_ai_assistant has returned the aggregate with its lists filled
C23_Witness ==
  /\ op = "for_ai_assistant"
  /\ result.kind = "return"
  /\ Len(result.value.general_guidelines) > 1
  /\ Len(result.value.project_structure) > 1
  /\ result.value.general_guidelines # result.value.project_structure
  /\ result.value.oop_principles[1] = "Single Responsibility Principle (SRP)"

\* the line search prints above the results of a category (cli.py 103)
GroupTitle(c) == Text("\n[bold cyan]" \o Category(c).title \o "[/bold cyan]")

\* the categories in which search_standards has found the query
CategoriesFound(query) ==
  { search_standards(query).value[n][1] :
      n \in 1..Len(search_standards(query).value) }

\* C24: for a query with at least one match the search command prints every
\* group of results under the title of the category the results were matched
\* in, never under the title of another category, and completes without
\* raising
C24_GroupsUnderOwnTitle ==
  ( /\ op = "main"
    /\ Len(args[1]) = 2
    /\ args[1][1] = "search"
    /\ CategoriesFound(args[1][2]) # {} )
    => /\ result = Exit(0)
       /\ \A c \in StandardCategory :
            c \in CategoriesFound(args[1][2])
              <=> \E n \in 1..Len(console) : console[n] = GroupTitle(c)

\* the results of search_standards("best practice") shorter than 200
\* characters, in the order of the results
ShortBestPractices ==
  SelectSeq(search_standards("best practice").value, LAMBDA r : Len(r[3]) < 200)

\* C25: suggest_improvements never returns an empty list: for every snippet
\* the result ends with the first two results of search_standards("best
\* practice") that are shorter than 200 characters, the descriptions of
\* oop_principles and error_handling, and the entries before these two are
\* the only ones that depend on the snippet
C25_EndsWithTwoTips ==
  op = "suggest_improvements" =>
    LET n == Len(result.value)
    IN /\ result.kind = "return"
       /\ n >= 2
       /\ Len(ShortBestPractices) >= 2
       /\ result.value[n - 1] = ShortBestPractices[1][3]
       /\ result.value[n] = ShortBestPractices[2][3]
       /\ ShortBestPractices[1]
            = << "oop_principles", "description", Category("oop_principles").description >>
       /\ ShortBestPractices[2]
            = << "error_handling", "description", Category("error_handling").description >>
       /\ \A i \in 1..(n - 2) : IsHeuristic(result.value[i])
       /\ ~IsHeuristic(result.value[n - 1]) /\ ~IsHeuristic(result.value[n])

\* a snippet that sets off no heuristic gets the two tips and nothing else
C25_Witness ==
  /\ op = "suggest_improvements"
  /\ args = << "def g(x) -> int:\n" >>
  /\ result.kind = "return"
  /\ Len(result.value) = 2
  /\ result.value[1] = Category("oop_principles").description

\* the text q occurs in the lower-cased query of the call
InQuery(q) == Starts(q, Lower(args[1])) > 0

\* C26: no query that contains "dataclass" is answered with the Modern
\* Python Features template: it contains "class" and is answered by the OOP
\* bucket or an earlier one; so whenever the modern features bucket answers,
\* one of its other keywords occurs in the query and "dataclass" does not
C26_DataclassNeverDecides ==
  /\ Starts("class", "dataclass") = 1
  /\ op = "generate_standard_response" =>
    /\ InQuery("dataclass") =>
         /\ InQuery("class")
         /\ result.kind = "return"
         /\ FirstHeading(result.value) # "## Modern Python Features"
         /\ FirstHeading(result.value) \in { "## Recommended Project Structure",
                                             "## Recommended Toolchain",
                                             "## OOP Best Practices" }
    /\ (result.kind = "return"
        /\ FirstHeading(result.value) = "## Modern Python Features") =>
         /\ ~InQuery("dataclass")
         /\ InQuery("modern") \/ InQuery("features") \/ InQuery("typing")

\* a query with "dataclass" and two more keywords of the modern features
\* bucket has been answered with the OOP template
C26_Witness ==
  /\ op = "generate_standard_response"
  /\ args = << "modern dataclass features" >>
  /\ result.kind = "return"
  /\ FirstHeading(result.value) = "## OOP Best Practices"
  /\ FirstHeading(MODERN_HEAD) = "## Modern Python Features"

\* the items of the store that are nested mappings: the category, the
\* example and the item
MappingPlaces ==
  { << n, j, k >> \in (1..Len(standards)) \X (1..3) \X (1..4) :
      /\ j <= Len(standards[n].value.examples)
      /\ k <= Len(standards[n].value.examples[j])
      /\ ~standards[n].value.examples[j][k].isstr }

\* the query occurs in a text of the mapping m
InMapping(query, m) ==
  \E i \in 1..Len(m) : m[i].isstr /\ Starts(Lower(query), Lower(m[i].value)) > 0

\* the results that come from the example j of the n-th category
ResultsOfExample(n, j) ==
  { i \in 1..Len(result.value) :
      /\ result.value[i][1] = standards[n].key
      /\ \E k \in 1..Len(standards[n].value.examples[j]) :
           /\ standards[n].value.examples[j][k].isstr
           /\ result.value[i][2] = "example." \o standards[n].value.examples[j][k].key
           /\ result.value[i][3] = standards[n].value.examples[j][k].value }

\* C27: search_standards inspects only the string-valued items of an
\* example: the nested "commands" mapping is never matched and never
\* returned, a query that occurs only inside a command text yields no result
\* for that example, and every returned text is a string
C27_OnlyStringFields ==
  op = "search_standards" =>
    /\ \A i \in 1..Len(result.value) :
         /\ result.value[i][2] # "example.commands"
         /\ result.value[i][2] \in { "title", "description", "guideline" }
            \/ \E j \in 1..Len(Category(result.value[i][1]).examples) :
                 \E k \in 1..Len(Category(result.value[i][1]).examples[j]) :
                   /\ Category(result.value[i][1]).examples[j][k].isstr
                   /\ result.value[i][2]
                        = "example." \o Category(result.value[i][1]).examples[j][k].key
         /\ result.value[i][3] \in STRING
    /\ \A p \in MappingPlaces :
         LET example == standards[p[1]].value.examples[p[2]]
         IN ( /\ InMapping(args[1], example[p[3]].value)
              /\ \A k \in 1..Len(example) :
                   example[k].isstr => Starts(Lower(args[1]), Lower(example[k].value)) = 0 )
              => ResultsOfExample(p[1], p[2]) = {}

\* "hatch run dev" is a command of the example "Common Hatch commands" of
\* development_tools and occurs in no other text of that example: the search
\* has returned nothing for the example
C27_Witness ==
  /\ op = "search_standards"
  /\ args = << "hatch run dev" >>
  /\ result.kind = "return"
  /\ \E p \in MappingPlaces :
       /\ standards[p[1]].key = "development_tools"
       /\ standards[p[1]].value.examples[p[2]][p[3]].key = "commands"
       /\ InMapping(args[1], standards[p[1]].value.examples[p[2]][p[3]].value)
       /\ ResultsOfExample(p[1], p[2]) = {}

====
